---- MODULE Spec2Model ----
(***************************************************************************)
(* A model of the content risk-scoring pipeline of blotato-spam-filter:    *)
(* MemoryCache (capacity eviction, expiry, hit accounting), the            *)
(* SpamDetectionEngine (safe rule execution, aggregation, thresholds), the *)
(* EdgeCaseHandler, and the two services that combine them                 *)
(* (SpamDetectionService, EnhancedSpamDetectionService).                   *)
(*                                                                         *)
(* Numbers.  JavaScript numbers are modelled exactly as rationals          *)
(* [n |-> numerator, d |-> denominator] with d > 0; a confidence of 0.75   *)
(* is Rat(750, 1000).  Floating-point rounding is not modelled.            *)
(*                                                                         *)
(* Time.  Date.now() is the variable now, counted in clock ticks;          *)
(* TicksPerHour ticks make one hour, so the 1000*60*60 of the eviction     *)
(* score becomes TicksPerHour.  Time-to-live values are in ticks too.      *)
(***************************************************************************)
EXTENDS Integers, Sequences, FiniteSets, TLC

\* ------------------------------------------------------------------ bounds
TicksPerHour == 20
MaxNow == 3
MaxCap == 2
MaxReads == 2
MaxTtl == 1
MaxRules == 3
MaxCalls == 3
SvcCap == 1
SvcTtl == 1
SvcMaxNow == 2
MaxBatch == 2
ConcCap == 2
ConcCalls == 4
MaxMonitor == 1
MonitorCalls == 2
EdgeCalls == 1
ConfGrid == 2
ScoreGrid == 20

\* --------------------------------------------------------------- rationals
RECURSIVE Gcd(_, _)
Gcd(a, b) == IF b = 0 THEN a ELSE Gcd(b, a % b)
Abs(x) == IF x < 0 THEN -x ELSE x

\* n/d in lowest terms, d > 0; equal numbers are equal records.
Rat(n, d) ==
  LET g == Gcd(Abs(n), d) IN [n |-> n \div g, d |-> d \div g]
RatLe(a, b) == a.n * b.d <= b.n * a.d
RatLt(a, b) == a.n * b.d < b.n * a.d
RatEq(a, b) == a.n * b.d = b.n * a.d
RatMul(a, b) == Rat(a.n * b.n, a.d * b.d)
RatMin(a, b) == IF RatLe(a, b) THEN a ELSE b
Zero == Rat(0, 1)
One == Rat(1, 1)
InUnit(a) == RatLe(Zero, a) /\ RatLe(a, One)

Max(a, b) == IF a >= b THEN a ELSE b

\* ------------------------------------------------------------------- state
VARIABLES
  now,         \* Date.now()
  maxEntries,  \* MemoryCache.maxEntries (constructor argument)
  defaultTtl,  \* MemoryCache.defaultTtl (constructor argument)
  cache,       \* MemoryCache.cache: the Map's entries in insertion order
  hits,        \* MemoryCache.hits
  misses,      \* MemoryCache.misses
  last,        \* the last cache call and what it returned
  inserted     \* ghost: the fingerprints set so far, while every call since
               \* construction was a set of a fingerprint not set before or
               \* a get that hit; Tainted after any other call

VARIABLES
  rules,       \* SpamDetectionEngine.rules
  eng          \* the engine's analyzeContent call in progress

VARIABLES
  svc,         \* which service is running, its PerformanceMonitor (the
               \* enhanced service has one), and ghost: how many entries
               \* its cache has dropped (eviction, expiry, clear) so far
  reqs,        \* the analyzeContent calls made so far, in call order
  batch        \* the analyzeBatch call

cacheVars == <<cache, hits, misses>>
ctorVars == <<maxEntries, defaultTtl>>
cacheSide == <<now, maxEntries, defaultTtl, cache, hits, misses, last, inserted>>
engineSide == <<rules, eng>>
serviceSide == <<svc, reqs, batch>>
vars == <<now, maxEntries, defaultTtl, cache, hits, misses, last, inserted,
          rules, eng, svc, reqs, batch>>

\* -------------------------------------------------------------------- text
\* A text (a JavaScript string) is a core, its content without the whitespace
\* around it and in its own letter case, with pad whitespace characters on
\* each side, and upper-cased or not.  The cores are samples; what the code
\* measures on each is in Measured.

\* "clean": The weather is lovely and it is warm in the park today
\* "long":  3000 times the letter a
\* "ctrl":  the log is in<six U+0001> and it is on
\* "zw":    one U+200B (zero-width space, which trim() keeps)
\* "promo": <fire><fire> GET RICH QUICK!!! CLICK HERE NOW!!!
\* "coffee": Just had coffee today, lovely weather.
\* "a300":  300 times the letter a
\* "longctrl": 2994 times the letter a, then <six U+0001>
\* "ctrlcoffee": Just had coffee today, lovely weather.<six U+0001>
\* "leet":  h3ll0 w0r1d th1s 1s c00l st8ff
\* "ats":   @spam @spam @spam @spam @spam @spam
\* "coffee4": Just had coffee today
\* "coffee5": Just had coffee today, lovely
\* "owls19": red cat sat by my old oak tree near his big hut while ten shy owls
\*           flew past our
\* "owls20": the same followed by " farm"
\* "zw11":  the log is in<eleven U+200B> and it is on
\* "cyr":   the l<U+043E>g is in and it is on (the Cyrillic letter o in "log")
Plain ==
  [len |-> 0, normLen |-> 0, words |-> 0, english |-> 0, ctrl |-> 0, zw |-> 0,
   homograph |-> FALSE, symbols |-> 0, letters |-> 0, uppers |-> 0,
   acronyms |-> FALSE, acronymsUpper |-> FALSE, special |-> 0,
   hasUrls |-> FALSE, hasHashtags |-> FALSE, mentions |-> 0, profane |-> 0,
   splitWords |-> 1, charScore |-> Zero, wordScore |-> Zero, phraseScore |-> Zero,
   promoScore |-> Zero, linkScore |-> Zero, fakeScore |-> Zero]

Measured ==
  [empty |-> Plain,
   clean |-> [Plain EXCEPT !.len = 54, !.normLen = 54, !.words = 12, !.english = 7,
                           !.letters = 43, !.uppers = 1, !.acronymsUpper = TRUE,
                           !.splitWords = 12],
   long  |-> [Plain EXCEPT !.len = 3000, !.normLen = 3000, !.words = 1,
                           !.letters = 3000, !.charScore = One],
   ctrl  |-> [Plain EXCEPT !.len = 32, !.normLen = 32, !.words = 8, !.english = 7,
                           !.ctrl = 6, !.letters = 19, !.special = 6,
                           !.splitWords = 8, !.charScore = Rat(6, 10)],
   zw    |-> [Plain EXCEPT !.len = 1, !.zw = 1, !.special = 1],
   a300  |-> [Plain EXCEPT !.len = 300, !.normLen = 300, !.words = 1,
                           !.letters = 300, !.charScore = One],
   longctrl |-> [Plain EXCEPT !.len = 3000, !.normLen = 3000, !.words = 1,
                              !.ctrl = 6, !.letters = 2994, !.special = 6,
                              !.charScore = One],
   ctrlcoffee |-> [Plain EXCEPT !.len = 44, !.normLen = 44, !.words = 6, !.ctrl = 6,
                                !.letters = 31, !.uppers = 1, !.acronymsUpper = TRUE,
                                !.special = 6, !.splitWords = 6,
                                !.charScore = Rat(6, 10)],
   leet  |-> [Plain EXCEPT !.len = 30, !.normLen = 30, !.words = 6, !.symbols = 9,
                           !.letters = 16, !.splitWords = 6],
   ats   |-> [Plain EXCEPT !.len = 35, !.normLen = 35, !.words = 6, !.symbols = 6,
                           !.letters = 24, !.acronymsUpper = TRUE, !.mentions = 6,
                           !.splitWords = 6, !.wordScore = One],
   zw11  |-> [Plain EXCEPT !.len = 37, !.normLen = 26, !.words = 8, !.english = 7,
                           !.zw = 11, !.letters = 19, !.acronymsUpper = TRUE,
                           !.special = 11, !.splitWords = 8, !.charScore = One],
   cyr   |-> [Plain EXCEPT !.len = 26, !.normLen = 26, !.words = 8, !.english = 7,
                           !.homograph = TRUE, !.letters = 18, !.acronymsUpper = TRUE,
                           !.special = 1, !.splitWords = 8],
   coffee4 |-> [Plain EXCEPT !.len = 21, !.normLen = 21, !.words = 4, !.letters = 18,
                             !.uppers = 1, !.acronymsUpper = TRUE, !.splitWords = 4],
   coffee5 |-> [Plain EXCEPT !.len = 29, !.normLen = 29, !.words = 5, !.letters = 24,
                             !.uppers = 1, !.acronymsUpper = TRUE, !.splitWords = 5],
   owls19 |-> [Plain EXCEPT !.len = 80, !.normLen = 80, !.words = 19, !.letters = 62,
                            !.acronymsUpper = TRUE, !.splitWords = 19],
   owls20 |-> [Plain EXCEPT !.len = 85, !.normLen = 85, !.words = 20, !.letters = 66,
                            !.acronymsUpper = TRUE, !.splitWords = 20],
   coffee |-> [Plain EXCEPT !.len = 38, !.normLen = 38, !.words = 6,
                            !.letters = 31, !.uppers = 1, !.acronymsUpper = TRUE,
                            !.splitWords = 6],
   promo |-> [Plain EXCEPT !.len = 40, !.normLen = 41, !.words = 7, !.symbols = 6,
                           !.letters = 24, !.uppers = 24, !.acronyms = TRUE,
                           !.acronymsUpper = TRUE, !.special = 4, !.splitWords = 7,
                           !.promoScore = Rat(15, 10)]]

Text(core, pad, upper) == [core |-> core, pad |-> pad, upper |-> upper]

\* String.prototype.trim, toLowerCase, length
trim(t) == [t EXCEPT !.pad = 0]
toLowerCase(t) == [t EXCEPT !.upper = FALSE]
length(t) == Measured[t.core].len + 2 * t.pad

\* !content || content.trim().length === 0
isBlank(t) == length(t) = 0 \/ length(trim(t)) = 0

\* What the code measures on a text: the measures of its core, with the pad
\* counted in the raw length (the normalizer trims it) and every letter a
\* capital in an upper-cased text.
variantOf(m, t) ==
  [m EXCEPT !.len = m.len + 2 * t.pad,
            !.uppers = IF t.upper THEN m.letters ELSE m.uppers,
            !.acronyms = IF t.upper THEN m.acronymsUpper ELSE m.acronyms]
features(t) == variantOf(Measured[t.core], t)

\* createContentHash(content): the first 16 hex digits of the SHA-256 of
\* content.trim().toLowerCase(); the digest is taken as injective.
createContentHash(t) == [sha256 |-> toLowerCase(trim(t))]

\* ------------------------------------------------------------- MemoryCache
\* An optional argument is <<>> when absent and <<x>> when given.
Undefined == <<>>
Given(x) == <<x>>

\* The index of key k in the Map, 0 when absent.
IndexOf(c, k) ==
  IF \E i \in 1..Len(c) : c[i].key = k
  THEN CHOOSE i \in 1..Len(c) : c[i].key = k
  ELSE 0

RemoveAt(c, i) == [j \in 1..(Len(c) - 1) |-> IF j < i THEN c[j] ELSE c[j + 1]]

\* Map.delete(k)
MapDelete(c, k) == IF IndexOf(c, k) = 0 THEN c ELSE RemoveAt(c, IndexOf(c, k))

\* Map.set(k, e): an existing key keeps its place in the iteration order.
MapSet(c, e) ==
  IF IndexOf(c, e.key) = 0 THEN Append(c, e)
  ELSE [c EXCEPT ![IndexOf(c, e.key)] = e]

\* entry.ttl && Date.now() > entry.timestamp + entry.ttl
isExpired_inclusive(e, t) == e.ttl # 0 /\ t >= e.timestamp + e.ttl
isExpired(e, t) == e.ttl # 0 /\ t > e.timestamp + e.ttl

\* score = entry.hits / Math.max(ageHours, 0.1), ageHours = (now - timestamp) / 1h.
\* With age in ticks: hits / max(age/H, 1/10) = hits * 10H / max(10*age, H).
evictionScore(e, t) ==
  Rat(e.hits * 10 * TicksPerHour, Max(10 * (t - e.timestamp), TicksPerHour))

\* The loop of evictLeastRecentlyUsed over the Map's entries from index i on:
\* best is the index of the candidate (lruKey), 0 while lowestScore is still
\* Infinity; an entry replaces the candidate only with a strictly lower score.
RECURSIVE lruScan(_, _, _, _)
lruScan(c, t, i, best) ==
  IF i > Len(c) THEN best
  ELSE lruScan(c, t, i + 1,
         IF best = 0 \/ RatLt(evictionScore(c[i], t), evictionScore(c[best], t))
         THEN i ELSE best)

lruIndex(c, t) == lruScan(c, t, 1, 0)

evictLeastRecentlyUsed(c, t) ==
  IF Len(c) = 0 THEN c ELSE RemoveAt(c, lruIndex(c, t))

\* ttl || this.defaultTtl
effectiveTtl(ttl, dflt) ==
  IF ttl = Undefined \/ ttl[1] = 0 THEN dflt ELSE ttl[1]

\* MemoryCache.set(contentHash, result, ttl?).  The field arg of an entry is a
\* ghost: the ttl argument of the call that stored it; no operation reads it.
set(c, k, v, ttl, t, cap, dflt) ==
  LET c1 == IF Len(c) >= cap THEN evictLeastRecentlyUsed(c, t) ELSE c
      e == [key |-> k, value |-> v, timestamp |-> t, hits |-> 0,
            ttl |-> effectiveTtl(ttl, dflt), arg |-> ttl]
  IN MapSet(c1, e)

\* MemoryCache.get(contentHash): the new Map, the counters and the result.
NoResult == [none |-> TRUE]
get_refreshing(c, h, m, k, t) ==
  LET i == IndexOf(c, k) IN
  IF i = 0 THEN [cache |-> c, hits |-> h, misses |-> m + 1, ret |-> NoResult]
  ELSE IF isExpired(c[i], t)
    THEN [cache |-> MapDelete(c, k), hits |-> h, misses |-> m + 1, ret |-> NoResult]
    ELSE [cache |-> [c EXCEPT ![i].hits = @ + 1, ![i].value.processingTime = "0.1"],
          hits |-> h + 1, misses |-> m, ret |-> c[i].value]
get(c, h, m, k, t) ==
  LET i == IndexOf(c, k) IN
  IF i = 0 THEN [cache |-> c, hits |-> h, misses |-> m + 1, ret |-> NoResult]
  ELSE IF isExpired(c[i], t)
    THEN [cache |-> MapDelete(c, k), hits |-> h, misses |-> m + 1, ret |-> NoResult]
    ELSE [cache |-> [c EXCEPT ![i].hits = @ + 1], hits |-> h + 1, misses |-> m,
          ret |-> c[i].value]

\* MemoryCache.has(contentHash)
has(c, k, t) ==
  LET i == IndexOf(c, k) IN
  IF i = 0 THEN [cache |-> c, ret |-> FALSE]
  ELSE IF isExpired(c[i], t) THEN [cache |-> MapDelete(c, k), ret |-> FALSE]
  ELSE [cache |-> c, ret |-> TRUE]

\* MemoryCache.cleanup(): the entries that stay.
cleanup(c, t) == SelectSeq(c, LAMBDA e : ~isExpired(e, t))

\* -------------------------------------------------------- detection config
DETECTION_THRESHOLDS ==
  [allow |-> Rat(2, 10), flag |-> Rat(5, 10), underReview |-> Rat(7, 10),
   reject |-> Rat(7, 10)]

RULE_WEIGHTS ==
  [profanity |-> Rat(30, 100), repetitive_content |-> Rat(20, 100),
   promotional |-> Rat(25, 100), suspicious_links |-> Rat(35, 100),
   caps_abuse |-> Rat(15, 100), fake_engagement |-> Rat(25, 100)]

\* getAllDetectionRules(): the catalogue in registration order.
getAllDetectionRules ==
  << [name |-> "profanity", weight |-> RULE_WEIGHTS.profanity],
     [name |-> "caps_abuse", weight |-> RULE_WEIGHTS.caps_abuse],
     [name |-> "repetitive_content", weight |-> RULE_WEIGHTS.repetitive_content],
     [name |-> "promotional", weight |-> RULE_WEIGHTS.promotional],
     [name |-> "suspicious_links", weight |-> RULE_WEIGHTS.suspicious_links],
     [name |-> "fake_engagement", weight |-> RULE_WEIGHTS.fake_engagement] >>

\* ------------------------------------------------------ SpamDetectionEngine
RatAdd(a, b) == Rat(a.n * b.d + b.n * a.d, a.d * b.d)
RatDiv(a, b) == Rat(a.n * b.d, a.d * b.n)

\* A SpamIndicator; severity and evidence play no part in a decision and are
\* left out.
Indicator(type, confidence, weight) ==
  [type |-> type, confidence |-> confidence, weight |-> weight]

\* What rule.execute(content) settles to.
Throws == [kind |-> "throw"]
NoSignal == [kind |-> "null"]
Emits(ind) == [kind |-> "signal", indicator |-> ind]

\* executeRuleSafely(rule, content): the promise it returns, settled.  Null is
\* the null it resolves to when the rule found nothing or threw.
Null == [null |-> TRUE]
Fulfilled(v) == [status |-> "fulfilled", value |-> v]
Rejected == [status |-> "rejected"]
executeRuleSafely_rethrows(outcome) ==
  IF outcome.kind = "signal" THEN Fulfilled(outcome.indicator)
  ELSE IF outcome.kind = "throw" THEN Rejected
  ELSE Fulfilled(Null)
executeRuleSafely(outcome) ==
  IF outcome.kind = "signal" THEN Fulfilled(outcome.indicator) ELSE Fulfilled(Null)

\* getDecisionFromScore(score)
getDecisionFromScore_strict(score) ==
  IF RatLt(score, DETECTION_THRESHOLDS.allow) THEN "allow"
  ELSE IF RatLt(score, DETECTION_THRESHOLDS.flag) THEN "flag"
  ELSE IF RatLt(score, DETECTION_THRESHOLDS.underReview) THEN "under_review"
  ELSE "reject"
getDecisionFromScore(score) ==
  IF RatLe(score, DETECTION_THRESHOLDS.allow) THEN "allow"
  ELSE IF RatLe(score, DETECTION_THRESHOLDS.flag) THEN "flag"
  ELSE IF RatLe(score, DETECTION_THRESHOLDS.underReview) THEN "under_review"
  ELSE "reject"

RECURSIVE SumWeighted(_)
SumWeighted(ind) ==
  IF ind = <<>> THEN Zero
  ELSE RatAdd(RatMul(Head(ind).confidence, Head(ind).weight), SumWeighted(Tail(ind)))

RECURSIVE SumWeight(_)
SumWeight(ind) ==
  IF ind = <<>> THEN Zero ELSE RatAdd(Head(ind).weight, SumWeight(Tail(ind)))

RECURSIVE SumConfidence(_)
SumConfidence(ind) ==
  IF ind = <<>> THEN Zero ELSE RatAdd(Head(ind).confidence, SumConfidence(Tail(ind)))

\* calculateConfidence(indicators, overallScore)
calculateConfidence(ind, overallScore) ==
  IF Len(ind) = 0 THEN One
  ELSE LET indicatorFactor == RatMin(Rat(Len(ind), 3), One)
           scoreFactor == IF RatLt(overallScore, Rat(2, 10)) \/ RatLt(Rat(8, 10), overallScore)
                          THEN One ELSE Rat(7, 10)
           avgIndicatorConfidence == RatDiv(SumConfidence(ind), Rat(Len(ind), 1))
       IN RatMin(RatMul(RatMul(indicatorFactor, scoreFactor), avgIndicatorConfidence), One)

\* calculateFinalDecision(indicators, contentHash, processingTime)
normalized_sum(totalScore, totalWeight) == totalScore
normalized(totalScore, totalWeight) ==
  IF RatLt(Zero, totalWeight) THEN RatDiv(totalScore, totalWeight) ELSE Zero
decided(basis, overallScore, ind, contentHash, processingTime) ==
  [decision |-> getDecisionFromScore(basis),
   overallScore |-> overallScore,
   confidence |-> calculateConfidence(ind, overallScore),
   indicators |-> ind,
   processingTime |-> processingTime,
   contentHash |-> contentHash]
calculateFinalDecision_total(ind, contentHash, processingTime) ==
  decided(SumWeighted(ind), normalized(SumWeighted(ind), SumWeight(ind)),
          ind, contentHash, processingTime)
calculateFinalDecision(ind, contentHash, processingTime) ==
  decided(normalized(SumWeighted(ind), SumWeight(ind)),
          normalized(SumWeighted(ind), SumWeight(ind)),
          ind, contentHash, processingTime)

\* createEmptyResult(contentHash, processingTime)
createEmptyResult(contentHash, processingTime) ==
  [decision |-> "allow", overallScore |-> Zero, confidence |-> One,
   indicators |-> <<>>, processingTime |-> processingTime, contentHash |-> contentHash]

\* createErrorResult(contentHash, processingTime)
createErrorResult(contentHash, processingTime) ==
  [decision |-> "under_review", overallScore |-> Rat(5, 10), confidence |-> Rat(1, 10),
   indicators |-> <<>>, processingTime |-> processingTime, contentHash |-> contentHash]

\* The indicators Promise.all hands to the filter: the fulfilled values that
\* are not null, in the order of the rules.
RECURSIVE collectIndicators_lastFirst(_)
collectIndicators_lastFirst(settled) ==
  IF settled = <<>> THEN <<>>
  ELSE IF Head(settled).value = Null THEN collectIndicators_lastFirst(Tail(settled))
  ELSE collectIndicators_lastFirst(Tail(settled)) \o <<Head(settled).value>>
RECURSIVE collectIndicators(_)
collectIndicators(settled) ==
  IF settled = <<>> THEN <<>>
  ELSE IF Head(settled).value = Null THEN collectIndicators(Tail(settled))
  ELSE <<Head(settled).value>> \o collectIndicators(Tail(settled))

\* The try block of SpamDetectionEngine.analyzeContent once every promise of
\* rulePromises has settled: Promise.all rejects when one of them rejected and
\* the catch turns that, or a failure of the aggregation itself (fault), into
\* the error result.
joinAndDecide_nocatch(settled, fault, contentHash, processingTime) ==
  calculateFinalDecision(collectIndicators(settled), contentHash, processingTime)
joinAndDecide(settled, fault, contentHash, processingTime) ==
  IF fault \/ \E i \in 1..Len(settled) : settled[i].status = "rejected"
  THEN createErrorResult(contentHash, processingTime)
  ELSE calculateFinalDecision(collectIndicators(settled), contentHash, processingTime)

\* ---------------------------------------------------------- built-in rules
ANALYSIS_CONFIG == [maxContentLength |-> 280, maxCapsRatio |-> Rat(7, 10)]

\* A rule's own return: no signal for a score of 0, else the score capped at 1.
capped(type, score) ==
  IF RatEq(score, Zero) THEN NoSignal
  ELSE Emits(Indicator(type, RatMin(score, One), RULE_WEIGHTS[type]))

\* The rules' execute, each on f, what the code measures on its content.
\* ProfanityRule.execute
ProfanityRule(f) ==
  IF f.profane = 0 THEN NoSignal
  ELSE Emits(Indicator("profanity",
                       RatMin(RatAdd(Rat(8, 10), RatMul(Rat(f.profane, f.splitWords), Rat(2, 10))), One),
                       RULE_WEIGHTS.profanity))

\* CapsAbuseRule.execute, f measured on content.trim()
capsConfidence(capsRatio) ==
  IF RatLt(Rat(9, 10), capsRatio) THEN Rat(9, 10)
  ELSE IF RatLt(Rat(8, 10), capsRatio) THEN Rat(75, 100)
  ELSE Rat(6, 10)
CapsAbuseRule(f) ==
  IF f.len < 3 \/ f.letters = 0 THEN NoSignal
  ELSE IF RatLe(Rat(f.uppers, f.letters), ANALYSIS_CONFIG.maxCapsRatio) THEN NoSignal
  ELSE Emits(Indicator("caps_abuse",
                       IF f.hasHashtags \/ f.acronyms
                       THEN RatMul(capsConfidence(Rat(f.uppers, f.letters)), Rat(7, 10))
                       ELSE capsConfidence(Rat(f.uppers, f.letters)),
                       RULE_WEIGHTS.caps_abuse))

\* RepetitiveContentRule.execute
part(score, w) == IF RatLt(Zero, score) THEN RatMul(score, w) ELSE Zero
share(score, w) == IF RatLt(Zero, score) THEN w ELSE Zero
repetitiveSignal(totalScore, maxScore) ==
  IF RatEq(maxScore, Zero) THEN NoSignal
  ELSE Emits(Indicator("repetitive_content", RatDiv(totalScore, maxScore),
                       RULE_WEIGHTS.repetitive_content))
RepetitiveContentRule(f) ==
  repetitiveSignal(
    RatAdd(part(f.charScore, Rat(3, 10)),
           RatAdd(part(f.wordScore, Rat(4, 10)), part(f.phraseScore, Rat(3, 10)))),
    RatAdd(share(f.charScore, Rat(3, 10)),
           RatAdd(share(f.wordScore, Rat(4, 10)), share(f.phraseScore, Rat(3, 10)))))

\* PromotionalRule.execute, SuspiciousLinksRule.execute, FakeEngagementRule.execute
PromotionalRule(f) == capped("promotional", f.promoScore)
SuspiciousLinksRule(f) ==
  IF ~f.hasUrls THEN NoSignal ELSE capped("suspicious_links", f.linkScore)
FakeEngagementRule(f) == capped("fake_engagement", f.fakeScore)

\* rule.execute(content) of the rule registered under a name.
execute(name, t) ==
  CASE name = "profanity" -> ProfanityRule(features(t))
    [] name = "caps_abuse" -> CapsAbuseRule(features(trim(t)))
    [] name = "repetitive_content" -> RepetitiveContentRule(features(t))
    [] name = "promotional" -> PromotionalRule(features(t))
    [] name = "suspicious_links" -> SuspiciousLinksRule(features(t))
    [] name = "fake_engagement" -> FakeEngagementRule(features(t))

\* SpamDetectionEngine.analyzeContent(content) with the whole catalogue
\* enabled, as the services build it; fault is a failure inside its try block.
engineAnalyze(t, fault) ==
  IF isBlank(t) THEN createEmptyResult(createContentHash(t), "elapsed")
  ELSE joinAndDecide([i \in 1..Len(getAllDetectionRules) |->
                        executeRuleSafely(execute(getAllDetectionRules[i].name, t))],
                     fault, createContentHash(t), "elapsed")

\* ---------------------------------------------------------- EdgeCaseHandler
\* createSpecialResult(content, decision, reason, indicators) at time tnow
createSpecialResult(decision, indicators, tnow) ==
  [decision |-> decision,
   overallScore |-> IF decision = "reject" THEN Rat(9, 10)
                    ELSE IF decision = "flag" THEN Rat(5, 10) ELSE Rat(3, 10),
   confidence |-> Rat(8, 10),
   indicators |-> indicators,
   processingTime |-> "1.0",
   contentHash |-> [edge_case |-> tnow]]

\* createObfuscationResult(content, type)
createObfuscationResult(tnow) ==
  createSpecialResult("reject",
                      <<Indicator("character_patterns", Rat(9, 10), Rat(8, 10))>>, tnow)

Handled(reason, action, result) ==
  [handled |-> TRUE, reason |-> reason, recommendedAction |-> action, result |-> result]
NotHandled == [handled |-> FALSE, reason |-> "", recommendedAction |-> "allow"]
NoEdgeCase ==
  [handled |-> FALSE, reason |-> "No edge cases detected", recommendedAction |-> "allow"]

\* generateMetadata: language
detectBasicLanguage(f) == IF f.english > 2 THEN "en" ELSE "unknown"

handleEmptyContent(f, tnow) ==
  IF f.normLen = 0
  THEN Handled("Empty content after preprocessing", "reject",
               createSpecialResult("reject", <<>>, tnow))
  ELSE IF f.words = 0
  THEN Handled("No meaningful words found", "reject",
               createSpecialResult("reject", <<>>, tnow))
  ELSE NotHandled

handleExtremeLength(f, tnow) ==
  IF f.normLen < 3 /\ f.words = 1
  THEN Handled("Extremely short content", "flag",
               createSpecialResult("flag", <<>>, tnow))
  ELSE IF f.normLen > 2000
  THEN Handled("Content exceeds reasonable length", "flag",
               createSpecialResult("flag", <<>>, tnow))
  ELSE NotHandled

handleEncodingIssues(f, tnow) ==
  IF 2 * (f.len - f.normLen) > f.len /\ f.len > 20
  THEN Handled("Significant character loss during preprocessing", "manual_review",
               createSpecialResult("under_review", <<>>, tnow))
  ELSE IF f.ctrl > 5
  THEN Handled("Multiple Unicode encoding issues detected", "manual_review",
               createSpecialResult("under_review", <<>>, tnow))
  ELSE NotHandled

handleObfuscation(f, tnow) ==
  IF f.zw > 10
  THEN Handled("Excessive zero-width characters detected", "reject",
               createObfuscationResult(tnow))
  ELSE IF f.homograph
  THEN Handled("Potential homograph attack detected", "flag",
               createObfuscationResult(tnow))
  ELSE IF f.letters > 0 /\ 10 * f.symbols > 3 * f.letters
  THEN Handled("Excessive symbol substitution detected", "flag",
               createObfuscationResult(tnow))
  ELSE NotHandled

handleNonEnglishContent(f, tnow) ==
  IF detectBasicLanguage(f) = "unknown" /\ f.words > 5 /\ f.words < 20
  THEN Handled("Unknown language with suspicious length", "flag",
               createSpecialResult("flag", <<>>, tnow))
  ELSE NotHandled

handleSpecialCharacters(f, tnow) ==
  IF f.len > 50 /\ 10 * f.special > 4 * f.len
  THEN Handled("Excessive special characters detected", "flag",
               createSpecialResult("flag", <<>>, tnow))
  ELSE NotHandled

handleContextualEdgeCases(f, tnow) ==
  IF (f.hasUrls \/ f.hasHashtags) /\ f.words < 3
  THEN Handled("Minimal text with URLs/hashtags", "flag",
               createSpecialResult("flag", <<>>, tnow))
  ELSE IF f.mentions > 5
  THEN Handled("Excessive mentions", "flag",
               createSpecialResult("flag", <<>>, tnow))
  ELSE NotHandled

\* The handlers in the order handleEdgeCase tries them.
handlerChain(f, tnow) ==
  << handleEmptyContent(f, tnow), handleExtremeLength(f, tnow),
     handleEncodingIssues(f, tnow), handleObfuscation(f, tnow),
     handleNonEnglishContent(f, tnow), handleSpecialCharacters(f, tnow),
     handleContextualEdgeCases(f, tnow) >>

RECURSIVE firstHandled(_)
firstHandled(outcomes) ==
  IF outcomes = <<>> THEN NoEdgeCase
  ELSE IF Head(outcomes).handled THEN Head(outcomes)
  ELSE firstHandled(Tail(outcomes))

\* handleEdgeCase(content): the outcome of the first handler of the chain that
\* handles the content; preprocess throws on the empty string and the catch
\* answers.
handleEdgeCase(t, tnow) ==
  IF length(t) = 0
  THEN Handled("Preprocessing error", "manual_review",
               createSpecialResult("under_review", <<>>, tnow))
  ELSE firstHandled(handlerChain(features(t), tnow))

\* ---------------------------------------------------- MemoryCache, actions
Keys == {<<"fp", i>> : i \in 1..(MaxCap + 1)}
Values == {[verdict |-> "v1"]}
TtlArgs == {Undefined} \cup {Given(x) : x \in 0..MaxTtl}
DefaultTtls == {MaxTtl + 1}

Tainted == [ok |-> FALSE, keys |-> {}]

\* PerformanceMonitor: processingTimes is kept as its length, samples.
MAX_PROCESSING_TIMES == 1000
NewMonitor ==
  [samples |-> 0, requestCount |-> 0, errorCount |-> 0, cacheHits |-> 0,
   cacheMisses |-> 0]
recordProcessingTime(m) ==
  [m EXCEPT !.samples = IF @ + 1 > MAX_PROCESSING_TIMES
                        THEN MAX_PROCESSING_TIMES ELSE @ + 1,
            !.requestCount = @ + 1]
recordCacheHit(m) == [m EXCEPT !.cacheHits = @ + 1]
recordCacheMiss(m) == [m EXCEPT !.cacheMisses = @ + 1]
recordError(m) == [m EXCEPT !.errorCount = @ + 1]
reset(m) == NewMonitor

\* PerformanceMonitor.getMetrics(): the counts and the two rates.
getMetrics(m) ==
  [requestCount |-> m.requestCount,
   cacheHitRate |-> IF m.cacheHits + m.cacheMisses > 0
                    THEN Rat(m.cacheHits, m.cacheHits + m.cacheMisses) ELSE Zero,
   errorRate |-> IF m.requestCount > 0 THEN Rat(m.errorCount, m.requestCount) ELSE Zero]

NoService ==
  /\ svc = [kind |-> "none", removals |-> 0, monitor |-> NewMonitor]
  /\ reqs = <<>>
  /\ batch = [pc |-> "none"]

InitCache ==
  /\ now = 0
  /\ maxEntries \in 0..MaxCap
  /\ defaultTtl \in DefaultTtls
  /\ cache = <<>>
  /\ hits = 0
  /\ misses = 0
  /\ last = [op |-> "new"]
  /\ inserted = [ok |-> TRUE, keys |-> {}]
  /\ rules = <<>>
  /\ eng = [pc |-> "idle"]
  /\ NoService

Tick ==
  /\ now < MaxNow
  /\ now' = now + 1
  /\ UNCHANGED <<ctorVars, cacheVars, last, inserted, engineSide, serviceSide>>

CacheSet ==
  \E k \in Keys, v \in Values, ttl \in TtlArgs :
    /\ cache' = set(cache, k, v, ttl, now, maxEntries, defaultTtl)
    /\ last' = [op |-> "set", key |-> k, ttl |-> ttl,
                evicted |-> Len(cache) >= maxEntries /\ Len(cache) > 0]
    /\ inserted' = IF inserted.ok /\ k \notin inserted.keys
                   THEN [inserted EXCEPT !.keys = @ \cup {k}]
                   ELSE Tainted
    /\ UNCHANGED <<now, ctorVars, hits, misses, engineSide, serviceSide>>

CacheGet ==
  \E k \in Keys :
    /\ hits + misses < MaxReads
    /\ LET r == get(cache, hits, misses, k, now) IN
         /\ cache' = r.cache
         /\ hits' = r.hits
         /\ misses' = r.misses
         /\ last' = [op |-> "get", key |-> k, ret |-> r.ret]
         /\ inserted' = IF r.ret # NoResult THEN inserted ELSE Tainted
    /\ UNCHANGED <<now, ctorVars, engineSide, serviceSide>>

CacheHas ==
  \E k \in Keys :
    /\ LET r == has(cache, k, now) IN
         /\ cache' = r.cache
         /\ last' = [op |-> "has", key |-> k, ret |-> r.ret]
    /\ inserted' = Tainted
    /\ UNCHANGED <<now, ctorVars, hits, misses, engineSide, serviceSide>>

CacheDelete ==
  \E k \in Keys :
    /\ cache' = MapDelete(cache, k)
    /\ last' = [op |-> "delete", key |-> k, ret |-> IndexOf(cache, k) # 0]
    /\ inserted' = Tainted
    /\ UNCHANGED <<now, ctorVars, hits, misses, engineSide, serviceSide>>

CacheClear ==
  /\ cache' = <<>>
  /\ hits' = 0
  /\ misses' = 0
  /\ last' = [op |-> "clear"]
  /\ inserted' = Tainted
  /\ UNCHANGED <<now, ctorVars, engineSide, serviceSide>>

CacheCleanup ==
  /\ cache' = cleanup(cache, now)
  /\ last' = [op |-> "cleanup", ret |-> Len(cache) - Len(cleanup(cache, now))]
  /\ inserted' = Tainted
  /\ UNCHANGED <<now, ctorVars, hits, misses, engineSide, serviceSide>>

NextCache ==
  \/ Tick
  \/ CacheSet
  \/ CacheGet
  \/ CacheHas
  \/ CacheDelete
  \/ CacheClear
  \/ CacheCleanup

SpecCache == InitCache /\ [][NextCache]_vars

\* ----------------------------------------------- SpamDetectionEngine, actions
\* The cache plays no part in the engine's own specifications.
NoCache ==
  /\ now = 0
  /\ maxEntries = 0
  /\ defaultTtl = 0
  /\ cache = <<>>
  /\ hits = 0
  /\ misses = 0
  /\ last = [op |-> "new"]
  /\ inserted = Tainted
  /\ NoService

Confidences == {Rat(k, ConfGrid) : k \in 0..ConfGrid}
Outcomes(rule) ==
  {Throws, NoSignal}
    \cup {Emits(Indicator(rule.name, c, rule.weight)) : c \in Confidences}

\* The engine is built with the first MaxRules rules of the catalogue, each
\* enabled or not.
RuleLists ==
  {[i \in 1..MaxRules |->
      [name |-> getAllDetectionRules[i].name,
       weight |-> getAllDetectionRules[i].weight,
       enabled |-> en[i]]] : en \in [1..MaxRules -> BOOLEAN]}

\* getEnabledRules()
getEnabledRules(rs) == SelectSeq(rs, LAMBDA r : r.enabled)

Pending == [status |-> "pending"]
EngineTexts == {Text("clean", 0, FALSE), Text("empty", 1, FALSE)}

InitEngine ==
  /\ NoCache
  /\ rules \in RuleLists
  /\ eng = [pc |-> "idle"]

\* analyzeContent(content) up to its await: the hash, the validation, and
\* one executeRuleSafely promise per enabled rule.  The field order is a ghost:
\* the indices of the promises in the order they settled.
EngineCall ==
  \E content \in EngineTexts :
    /\ eng.pc = "idle"
    /\ eng' =
         IF isBlank(content)
         THEN [pc |-> "done", content |-> content, run |-> <<>>, raw |-> <<>>,
               settled |-> <<>>, order |-> <<>>, fault |-> FALSE,
               ret |-> createEmptyResult(createContentHash(content), "elapsed")]
         ELSE LET run == getEnabledRules(rules) IN
              [pc |-> "await", content |-> content, run |-> run,
               raw |-> [i \in 1..Len(run) |-> Pending],
               settled |-> [i \in 1..Len(run) |-> Pending], order |-> <<>>]
    /\ UNCHANGED <<cacheSide, rules, serviceSide>>

\* One rule's execute settles, in any order among the rules.
RuleSettle ==
  /\ eng.pc = "await"
  /\ \E i \in 1..Len(eng.run) :
       /\ eng.raw[i] = Pending
       /\ \E o \in Outcomes(eng.run[i]) :
            eng' = [eng EXCEPT !.raw[i] = o, !.settled[i] = executeRuleSafely(o),
                               !.order = Append(@, i)]
  /\ UNCHANGED <<cacheSide, rules, serviceSide>>

\* Promise.all settles: fulfilled once every promise is, rejected as soon as
\* one is.  The rest of the try block runs, or the catch.
EngineJoin ==
  /\ eng.pc = "await"
  /\ \E fault \in BOOLEAN :
       /\ \/ \A i \in 1..Len(eng.run) : eng.settled[i].status = "fulfilled"
          \/ \E i \in 1..Len(eng.run) : eng.settled[i].status = "rejected"
       /\ eng' = [pc |-> "done", content |-> eng.content, run |-> eng.run,
                  raw |-> eng.raw, settled |-> eng.settled, order |-> eng.order,
                  fault |-> fault,
                  ret |-> joinAndDecide(eng.settled, fault,
                                        createContentHash(eng.content), "elapsed")]
  /\ UNCHANGED <<cacheSide, rules, serviceSide>>

NextEngine ==
  \/ EngineCall
  \/ RuleSettle
  \/ EngineJoin

SpecEngine == InitEngine /\ [][NextEngine]_vars

\* getDecisionFromScore on its own, applied to two scores of a grid.
Scores == {Rat(k, ScoreGrid) : k \in 0..ScoreGrid}

InitDecide ==
  /\ NoCache
  /\ rules = <<>>
  /\ \E a \in Scores, b \in Scores : eng = [pc |-> "scores", a |-> a, b |-> b]

Decide ==
  /\ eng.pc = "scores"
  /\ eng' = [pc |-> "decided", a |-> eng.a, b |-> eng.b,
             da |-> getDecisionFromScore(eng.a), db |-> getDecisionFromScore(eng.b)]
  /\ UNCHANGED <<cacheSide, rules, serviceSide>>

NextDecide == Decide

SpecDecide == InitDecide /\ [][NextDecide]_vars

\* ------------------------------------------------------------- the services
\* SpamDetectionService ("basic") and EnhancedSpamDetectionService
\* ("enhanced") over one MemoryCache and one engine with the whole catalogue.
Returned(v) == [kind |-> "returned", value |-> v]
Raised == [kind |-> "raised"]
NoOutcome == [kind |-> "pending"]

\* The verdict the catch blocks of EnhancedSpamDetectionService build.
fallbackResult(t, processingTime) ==
  [decision |-> "under_review", overallScore |-> Rat(5, 10), confidence |-> Rat(1, 10),
   indicators |-> <<>>, processingTime |-> processingTime,
   contentHash |-> createContentHash(t)]

\* fault, stored, epoch and threw are ghosts: whether the engine failed
\* inside, when the call stored its result in the cache (-1 while it has not),
\* how many entries the cache had dropped when the call returned, and which
\* call of the cache threw ("none" for a cache that works, as MemoryCache).
Request(t, pc, path, out, removals) ==
  [text |-> t, pc |-> pc, path |-> path, out |-> out, fault |-> FALSE,
   stored |-> -1, epoch |-> removals, threw |-> "none"]

\* analyzeContent(content) up to its first await or its return, on the state
\* st = [cache, hits, misses, removals, monitor]: the request as it stands
\* then, and the state.
looked(kind, t, r, dropped, m) ==
  [req |-> IF r.ret # NoResult
           THEN Request(t, "done", "hit",
                        Returned([r.ret EXCEPT !.processingTime =
                                    IF kind = "basic" THEN "0.1" ELSE "elapsed"]),
                        dropped)
           ELSE Request(t, "await", "full", NoOutcome, dropped),
   st |-> [cache |-> r.cache, hits |-> r.hits, misses |-> r.misses,
           removals |-> dropped,
           monitor |-> IF kind = "basic" THEN m
                       ELSE IF r.ret # NoResult THEN recordCacheHit(m)
                       ELSE recordCacheMiss(m)]]
afterGet(kind, t, st, r) ==
  looked(kind, t, r, st.removals + (Len(st.cache) - Len(r.cache)), st.monitor)
lookup(kind, t, st, tnow) ==
  afterGet(kind, t, st, get(st.cache, st.hits, st.misses, createContentHash(t), tnow))

afterEdgeCase_lookingUp(kind, t, st, tnow, edgeCase) ==
  IF edgeCase.handled
  THEN [req |-> Request(t, "done", "edge",
                        Returned([edgeCase.result EXCEPT !.processingTime = "elapsed"]),
                        st.removals),
        st |-> [lookup(kind, t, st, tnow).st EXCEPT !.monitor = recordProcessingTime(@)]]
  ELSE lookup(kind, t, st, tnow)
afterEdgeCase(kind, t, st, tnow, edgeCase) ==
  IF edgeCase.handled
  THEN [req |-> Request(t, "done", "edge",
                        Returned([edgeCase.result EXCEPT !.processingTime = "elapsed"]),
                        st.removals),
        st |-> [st EXCEPT !.monitor = recordProcessingTime(@)]]
  ELSE lookup(kind, t, st, tnow)

startAnalyze(kind, t, st, tnow) ==
  IF kind = "basic"
  THEN IF isBlank(t)
       THEN [req |-> Request(t, "done", "invalid", Raised, st.removals), st |-> st]
       ELSE lookup(kind, t, st, tnow)
  ELSE IF isBlank(t)
       THEN [req |-> Request(t, "done", "invalid",
                             Returned(fallbackResult(t, "elapsed")), st.removals),
             st |-> [st EXCEPT !.monitor = recordError(@)]]
       ELSE afterEdgeCase(kind, t, st, tnow, handleEdgeCase(t, tnow))

\* contents.map(content => this.analyzeContent(content)): the calls start one
\* after the other, each running up to its first await.
started(acc, s) == [reqs |-> Append(acc.reqs, s.req), st |-> s.st]
RECURSIVE startAll(_, _, _, _)
startAll(kind, ts, acc, tnow) ==
  IF ts = <<>> THEN acc
  ELSE startAll(kind, Tail(ts),
                started(acc, startAnalyze(kind, Head(ts), acc.st, tnow)), tnow)

SvcTexts ==
  {Text("empty", 0, FALSE), Text("clean", 0, FALSE), Text("long", 0, FALSE),
   Text("ctrl", 0, FALSE)}
BatchTexts == {Text("empty", 1, FALSE), Text("clean", 0, FALSE), Text("long", 0, FALSE)}
BatchLists == UNION {[1..n -> BatchTexts] : n \in 0..MaxBatch}

State ==
  [cache |-> cache, hits |-> hits, misses |-> misses, removals |-> svc.removals,
   monitor |-> svc.monitor]

Init ==
  /\ now = 0
  /\ maxEntries = SvcCap
  /\ defaultTtl = SvcTtl
  /\ cache = <<>>
  /\ hits = 0
  /\ misses = 0
  /\ last = [op |-> "new"]
  /\ inserted = Tainted
  /\ rules = getAllDetectionRules
  /\ eng = [pc |-> "idle"]
  /\ svc \in {[kind |-> k, removals |-> 0, monitor |-> NewMonitor] :
               k \in {"basic", "enhanced"}}
  /\ reqs = <<>>
  /\ batch = [pc |-> "none"]

SvcTick ==
  /\ now < SvcMaxNow
  /\ now' = now + 1
  /\ UNCHANGED <<ctorVars, cacheVars, last, inserted, engineSide, serviceSide>>

\* analyzeContent(content), called on its own.
Analyze ==
  /\ Len(reqs) < MaxCalls
  /\ \E t \in SvcTexts :
       \E s \in {startAnalyze(svc.kind, t, State, now)} :
         /\ reqs' = Append(reqs, s.req)
         /\ cache' = s.st.cache
         /\ hits' = s.st.hits
         /\ misses' = s.st.misses
         /\ svc' = [svc EXCEPT !.removals = s.st.removals, !.monitor = s.st.monitor]
  /\ UNCHANGED <<now, ctorVars, last, inserted, engineSide, batch>>

\* An analyzeContent call resumes after its await of the engine: the engine
\* has answered (with a failure inside it or not), the answer is stored and
\* returned.
Resume ==
  \E i \in 1..Len(reqs) :
    /\ reqs[i].pc = "await"
    /\ \E fault \in BOOLEAN :
         \E result \in {engineAnalyze(reqs[i].text, fault)},
            evicts \in {IF Len(cache) >= maxEntries /\ Len(cache) > 0 THEN 1 ELSE 0} :
            /\ cache' = set(cache, createContentHash(reqs[i].text), result, Undefined,
                            now, maxEntries, defaultTtl)
            /\ svc' = [svc EXCEPT !.removals = @ + evicts,
                                   !.monitor = IF svc.kind = "enhanced"
                                               THEN recordProcessingTime(@) ELSE @]
            /\ reqs' = [reqs EXCEPT ![i].pc = "done", ![i].out = Returned(result),
                                    ![i].fault = fault, ![i].stored = now,
                                    ![i].epoch = svc.removals + evicts]
    /\ UNCHANGED <<now, ctorVars, hits, misses, last, inserted, engineSide, batch>>

\* analyzeBatch(contents) up to its await (or its return for no contents).
AnalyzeBatch ==
  /\ batch.pc = "none"
  /\ \E ts \in BatchLists :
       /\ Len(reqs) + Len(ts) <= MaxCalls
       /\ \E s \in {startAll(svc.kind, ts, [reqs |-> <<>>, st |-> State], now)} :
            /\ reqs' = reqs \o s.reqs
            /\ cache' = s.st.cache
            /\ hits' = s.st.hits
            /\ misses' = s.st.misses
            /\ svc' = [svc EXCEPT !.removals = s.st.removals, !.monitor = s.st.monitor]
            /\ batch' = IF ts = <<>>
                        THEN [pc |-> "done", contents |-> ts, items |-> <<>>,
                              out |-> Returned(<<>>)]
                        ELSE [pc |-> "await", contents |-> ts,
                              items |-> [k \in 1..Len(ts) |-> Len(reqs) + k],
                              out |-> NoOutcome]
  /\ UNCHANGED <<now, ctorVars, last, inserted, engineSide>>

\* Promise.all over the item promises settles: rejected as soon as one item
\* is, fulfilled with the item results in item order once all are.  The
\* enhanced service catches the rejection and answers the fallback for every
\* content; the basic service passes it on.
BatchJoin ==
  /\ batch.pc = "await"
  /\ LET rejected == \E k \in 1..Len(batch.items) : reqs[batch.items[k]].out = Raised
         fulfilled == \A k \in 1..Len(batch.items) : reqs[batch.items[k]].out.kind = "returned"
     IN /\ rejected \/ fulfilled
        /\ batch' =
             [batch EXCEPT
                !.pc = "done",
                !.out = IF ~rejected
                        THEN Returned([k \in 1..Len(batch.items) |->
                                         reqs[batch.items[k]].out.value])
                        ELSE IF svc.kind = "basic" THEN Raised
                        ELSE Returned([k \in 1..Len(batch.contents) |->
                                         fallbackResult(batch.contents[k], "1.0")])]
        /\ svc' = [svc EXCEPT !.monitor = IF svc.kind = "basic" THEN @
                                          ELSE IF rejected THEN recordError(@)
                                          ELSE recordProcessingTime(@)]
  /\ UNCHANGED <<cacheSide, engineSide, reqs>>

\* clearCache()
ClearCache ==
  /\ cache' = <<>>
  /\ hits' = 0
  /\ misses' = 0
  /\ svc' = [svc EXCEPT !.removals = @ + Len(cache)]
  /\ UNCHANGED <<now, ctorVars, last, inserted, engineSide, reqs, batch>>

\* cleanupCache()
CleanupCache ==
  /\ cache' = cleanup(cache, now)
  /\ svc' = [svc EXCEPT !.removals = @ + (Len(cache) - Len(cache'))]
  /\ UNCHANGED <<now, ctorVars, hits, misses, last, inserted, engineSide, reqs, batch>>

\* The service under single calls, with time and cache maintenance.
Next ==
  \/ SvcTick
  \/ Analyze
  \/ Resume
  \/ ClearCache
  \/ CleanupCache

Spec == Init /\ [][Next]_vars

\* The service under a batch call and single calls around it.
NextBatch ==
  \/ Analyze
  \/ Resume
  \/ AnalyzeBatch
  \/ BatchJoin

SpecBatch == Init /\ [][NextBatch]_vars

\* The service under single calls on the sample texts, without time.
SampleTexts ==
  {Text("coffee", 0, FALSE), Text("clean", 0, FALSE), Text("promo", 0, FALSE),
   Text("zw", 0, FALSE), Text("clean", 0, TRUE), Text("a300", 0, FALSE)}

AnalyzeSample ==
  /\ Len(reqs) < MaxCalls
  /\ \E t \in SampleTexts :
       \E s \in {startAnalyze(svc.kind, t, State, now)} :
         /\ reqs' = Append(reqs, s.req)
         /\ cache' = s.st.cache
         /\ hits' = s.st.hits
         /\ misses' = s.st.misses
         /\ svc' = [svc EXCEPT !.removals = s.st.removals, !.monitor = s.st.monitor]
  /\ UNCHANGED <<now, ctorVars, last, inserted, engineSide, batch>>

NextSamples ==
  \/ AnalyzeSample
  \/ Resume

SpecSamples == Init /\ [][NextSamples]_vars

\* The services over a DetectionCache handed to the constructor whose get or
\* set may throw.  What a throw of the cache leads to: SpamDetectionService has
\* no try around its cache calls and the call rejects;
\* EnhancedSpamDetectionService has them inside its try and its catch answers.
cacheThrew(kind, t) ==
  IF kind = "basic" THEN Raised ELSE Returned(fallbackResult(t, "elapsed"))

\* analyzeContent(content) when this.cache.get(contentHash) throws.
AnalyzeGetThrows ==
  /\ Len(reqs) < MaxCalls
  /\ \E t \in SampleTexts :
       /\ ~isBlank(t)
       /\ svc.kind = "enhanced" => ~handleEdgeCase(t, now).handled
       /\ reqs' = Append(reqs, [Request(t, "done", "full", cacheThrew(svc.kind, t),
                                        svc.removals) EXCEPT !.threw = "get"])
  /\ svc' = [svc EXCEPT !.monitor = IF svc.kind = "enhanced" THEN recordError(@) ELSE @]
  /\ UNCHANGED <<cacheSide, engineSide, batch>>

\* analyzeContent(content) resumes after its await and
\* this.cache.set(contentHash, result) throws.
ResumeSetThrows ==
  /\ \E i \in 1..Len(reqs) :
       /\ reqs[i].pc = "await"
       /\ \E fault \in BOOLEAN :
            reqs' = [reqs EXCEPT ![i].pc = "done",
                                 ![i].out = cacheThrew(svc.kind, reqs[i].text),
                                 ![i].fault = fault, ![i].threw = "set"]
  /\ svc' = [svc EXCEPT !.monitor = IF svc.kind = "enhanced" THEN recordError(@) ELSE @]
  /\ UNCHANGED <<cacheSide, engineSide, batch>>

NextCacheFailure ==
  \/ AnalyzeSample
  \/ Resume
  \/ AnalyzeGetThrows
  \/ ResumeSetThrows

SpecCacheFailure == Init /\ [][NextCacheFailure]_vars

\* Several analyzeContent calls in flight on one cache of capacity up to
\* ConcCap: each call runs up to its await in one step and from its await to
\* its return in another, and the steps of different calls interleave.
ConcTexts ==
  {Text("coffee", 0, FALSE), Text("clean", 0, FALSE), Text("promo", 0, FALSE)}

InitConcurrent ==
  /\ now = 0
  /\ maxEntries \in 1..ConcCap
  /\ defaultTtl = SvcTtl
  /\ cache = <<>>
  /\ hits = 0
  /\ misses = 0
  /\ last = [op |-> "new"]
  /\ inserted = Tainted
  /\ rules = getAllDetectionRules
  /\ eng = [pc |-> "idle"]
  /\ svc \in {[kind |-> k, removals |-> 0, monitor |-> NewMonitor] :
               k \in {"basic", "enhanced"}}
  /\ reqs = <<>>
  /\ batch = [pc |-> "none"]

AnalyzeConcurrent ==
  /\ Len(reqs) < ConcCalls
  /\ \E t \in ConcTexts :
       \E s \in {startAnalyze(svc.kind, t, State, now)} :
         /\ reqs' = Append(reqs, s.req)
         /\ cache' = s.st.cache
         /\ hits' = s.st.hits
         /\ misses' = s.st.misses
         /\ svc' = [svc EXCEPT !.removals = s.st.removals, !.monitor = s.st.monitor]
  /\ UNCHANGED <<now, ctorVars, last, inserted, engineSide, batch>>

NextConcurrent ==
  \/ AnalyzeConcurrent
  \/ Resume

SpecConcurrent == InitConcurrent /\ [][NextConcurrent]_vars

\* EnhancedSpamDetectionService with its PerformanceMonitor in any state:
\* between the analyses the monitor's operations are called any number of
\* times (up to MaxMonitor per counter) and the metrics are reset.
MonitorTexts == {Text("coffee", 0, FALSE), Text("clean", 0, FALSE)}

AnalyzeMonitored ==
  /\ Len(reqs) < MonitorCalls
  /\ \E t \in MonitorTexts :
       \E s \in {startAnalyze(svc.kind, t, State, now)} :
         /\ reqs' = Append(reqs, s.req)
         /\ cache' = s.st.cache
         /\ hits' = s.st.hits
         /\ misses' = s.st.misses
         /\ svc' = [svc EXCEPT !.removals = s.st.removals, !.monitor = s.st.monitor]
  /\ UNCHANGED <<now, ctorVars, last, inserted, engineSide, batch>>

RecordProcessingTime ==
  /\ svc.kind = "enhanced"
  /\ svc.monitor.requestCount < MaxMonitor
  /\ svc' = [svc EXCEPT !.monitor = recordProcessingTime(@)]
  /\ UNCHANGED <<cacheSide, engineSide, reqs, batch>>

RecordCacheHit ==
  /\ svc.kind = "enhanced"
  /\ svc.monitor.cacheHits < MaxMonitor
  /\ svc' = [svc EXCEPT !.monitor = recordCacheHit(@)]
  /\ UNCHANGED <<cacheSide, engineSide, reqs, batch>>

RecordCacheMiss ==
  /\ svc.kind = "enhanced"
  /\ svc.monitor.cacheMisses < MaxMonitor
  /\ svc' = [svc EXCEPT !.monitor = recordCacheMiss(@)]
  /\ UNCHANGED <<cacheSide, engineSide, reqs, batch>>

RecordError ==
  /\ svc.kind = "enhanced"
  /\ svc.monitor.errorCount < MaxMonitor
  /\ svc' = [svc EXCEPT !.monitor = recordError(@)]
  /\ UNCHANGED <<cacheSide, engineSide, reqs, batch>>

\* resetMetrics() on the state st = [cache, hits, misses, removals, monitor]
resetMetrics_clearing(st) ==
  [st EXCEPT !.monitor = reset(@), !.cache = <<>>, !.hits = 0, !.misses = 0]
resetMetrics(st) == [st EXCEPT !.monitor = reset(@)]

ResetMetrics ==
  /\ svc.kind = "enhanced"
  /\ \E s \in {resetMetrics(State)} :
       /\ cache' = s.cache
       /\ hits' = s.hits
       /\ misses' = s.misses
       /\ svc' = [svc EXCEPT !.removals = s.removals, !.monitor = s.monitor]
  /\ UNCHANGED <<now, ctorVars, last, inserted, engineSide, reqs, batch>>

NextMonitor ==
  \/ AnalyzeMonitored
  \/ Resume
  \/ RecordProcessingTime
  \/ RecordCacheHit
  \/ RecordCacheMiss
  \/ RecordError
  \/ ResetMetrics

SpecMonitor == Init /\ [][NextMonitor]_vars

\* EdgeCaseHandler.handleEdgeCase on a content, called on its own and from the
\* analyzeContent of the services: texts on which several handlers answer at
\* once, texts on which one does, and texts on which none does.
EdgeCores ==
  {"empty", "clean", "long", "ctrl", "zw", "a300", "longctrl", "ctrlcoffee",
   "leet", "ats", "coffee", "promo", "zw11", "cyr",
   "coffee4", "coffee5", "owls19", "owls20"}
EdgeTexts == {Text(c, p, u) : c \in EdgeCores, p \in 0..1, u \in BOOLEAN}

InitEdge ==
  /\ now \in 0..SvcMaxNow
  /\ maxEntries = SvcCap
  /\ defaultTtl = SvcTtl
  /\ cache = <<>>
  /\ hits = 0
  /\ misses = 0
  /\ last = [op |-> "new"]
  /\ inserted = Tainted
  /\ rules = getAllDetectionRules
  /\ \E t \in EdgeTexts : eng = [pc |-> "content", content |-> t]
  /\ svc \in {[kind |-> k, removals |-> 0, monitor |-> NewMonitor] :
               k \in {"basic", "enhanced"}}
  /\ reqs = <<>>
  /\ batch = [pc |-> "none"]

\* EdgeCaseHandler.handleEdgeCase(content)
HandleEdgeCase ==
  /\ eng.pc = "content"
  /\ eng' = [pc |-> "classified", content |-> eng.content,
             outcome |-> handleEdgeCase(eng.content, now)]
  /\ UNCHANGED <<cacheSide, rules, serviceSide>>

\* analyzeContent(content) on the same content.
AnalyzeEdge ==
  /\ Len(reqs) < EdgeCalls
  /\ \E s \in {startAnalyze(svc.kind, eng.content, State, now)} :
       /\ reqs' = Append(reqs, s.req)
       /\ cache' = s.st.cache
       /\ hits' = s.st.hits
       /\ misses' = s.st.misses
       /\ svc' = [svc EXCEPT !.removals = s.st.removals, !.monitor = s.st.monitor]
  /\ UNCHANGED <<now, ctorVars, last, inserted, engineSide, batch>>

NextEdge ==
  \/ HandleEdgeCase
  \/ AnalyzeEdge
  \/ Resume

SpecEdge == InitEdge /\ [][NextEdge]_vars

\* ------------------------------------------ claims on the SpamDetectionEngine
RECURSIVE SignalsOf(_)
SignalsOf(raw) ==
  IF raw = <<>> THEN <<>>
  ELSE IF Head(raw).kind = "signal" THEN <<Head(raw).indicator>> \o SignalsOf(Tail(raw))
  ELSE SignalsOf(Tail(raw))

\* C9: when the engine has answered for a non-blank text and its aggregation
\* did not fail, every enabled rule has run to its end whether or not another
\* one threw, the indicators of the verdict are exactly the signals of the
\* rules that emitted one, in rule order (a rule that threw contributes none),
\* and the verdict is the aggregation of those signals, not the error result.
C9_ExtractorIsolation ==
  (eng.pc = "done" /\ ~isBlank(eng.content) /\ ~eng.fault) =>
    /\ \A i \in 1..Len(eng.raw) : eng.raw[i] # Pending
    /\ eng.ret.indicators = SignalsOf(eng.raw)
    /\ eng.ret = calculateFinalDecision(SignalsOf(eng.raw),
                                        createContentHash(eng.content), "elapsed")

C9_Witness ==
  /\ eng.pc = "done"
  /\ ~eng.fault
  /\ \E i, j \in 1..Len(eng.raw) :
       i < j /\ eng.raw[i] = Throws /\ eng.raw[j].kind = "signal"
  /\ Len(eng.ret.indicators) = 1
  /\ eng.ret.decision = "reject"

\* The classes as the claim words them, each an interval of its own.
InClass(d, s) ==
  CASE d = "allow" -> RatLe(s, Rat(2, 10))
    [] d = "flag" -> RatLt(Rat(2, 10), s) /\ RatLe(s, Rat(5, 10))
    [] d = "under_review" -> RatLt(Rat(5, 10), s) /\ RatLe(s, Rat(7, 10))
    [] d = "reject" -> RatLt(Rat(7, 10), s)
Decisions == {"allow", "flag", "under_review", "reject"}
Severity(d) ==
  CASE d = "allow" -> 0 [] d = "flag" -> 1 [] d = "under_review" -> 2 [] d = "reject" -> 3

RECURSIVE SigmaConfidenceWeight(_, _)
SigmaConfidenceWeight(sigs, n) ==
  IF n = 0 THEN Zero
  ELSE RatAdd(SigmaConfidenceWeight(sigs, n - 1),
              RatMul(sigs[n].confidence, sigs[n].weight))
RECURSIVE SigmaWeight(_, _)
SigmaWeight(sigs, n) ==
  IF n = 0 THEN Zero ELSE RatAdd(SigmaWeight(sigs, n - 1), sigs[n].weight)
WeightedMean(sigs) ==
  IF sigs = <<>> THEN Zero
  ELSE RatDiv(SigmaConfidenceWeight(sigs, Len(sigs)), SigmaWeight(sigs, Len(sigs)))

RegistrationIndex(type) ==
  CHOOSE i \in 1..Len(getAllDetectionRules) : getAllDetectionRules[i].name = type
Combined == eng.pc = "done" /\ ~isBlank(eng.content) /\ ~eng.fault

\* C30: analyzeContent combines the signals only once every enabled extractor
\* has completed or failed, and the signals of the Verdict are in the
\* registration order of the extractors (profanity, caps_abuse,
\* repetitive_content, promotional, suspicious_links, fake_engagement) whatever
\* order the extractors completed in, at most one signal per extractor.
C30_RegistrationOrder ==
  Combined
  => /\ Len(eng.order) = Len(eng.run)
     /\ \A i \in 1..Len(eng.run) :
          /\ \E k \in 1..Len(eng.order) : eng.order[k] = i
          /\ eng.raw[i] # Pending
          /\ Cardinality({k \in 1..Len(eng.ret.indicators) :
                            eng.ret.indicators[k].type = eng.run[i].name})
               = (IF eng.raw[i].kind = "signal" THEN 1 ELSE 0)
     /\ \A j, k \in 1..Len(eng.ret.indicators) :
          j < k => RegistrationIndex(eng.ret.indicators[j].type)
                     < RegistrationIndex(eng.ret.indicators[k].type)

\* Extractors that completed in the reverse of their registration order, with
\* a failed one among them, and two signals combined.
C30_Witness ==
  /\ Combined
  /\ Len(eng.run) = MaxRules
  /\ \A k \in 1..Len(eng.order) : eng.order[k] = Len(eng.run) + 1 - k
  /\ \E i \in 1..Len(eng.run) : eng.raw[i] = Throws
  /\ Len(eng.ret.indicators) = 2

\* ------------------------------------------------------ claims on the services
Answered(i) == reqs[i].pc = "done" /\ reqs[i].out.kind = "returned"
Verdict(i) == reqs[i].out.value

IsFallback(v) ==
  /\ v.decision = "under_review"
  /\ v.overallScore = Rat(5, 10)
  /\ v.confidence = Rat(1, 10)
  /\ v.indicators = <<>>

IsManualReview(v) ==
  /\ v.decision = "under_review"
  /\ v.overallScore = Rat(3, 10)
  /\ v.confidence = Rat(8, 10)

\* C1: every Verdict analyze returns for a non-blank text, on every path, has
\* overallScore and confidence in [0,1] and the decision that is the
\* threshold class of its own overallScore.
C1_VerdictWellFormed ==
  \A i \in 1..Len(reqs) :
    (Answered(i) /\ ~isBlank(reqs[i].text)) =>
      /\ InUnit(Verdict(i).overallScore)
      /\ InUnit(Verdict(i).confidence)
      /\ InClass(Verdict(i).decision, Verdict(i).overallScore)

\* C1 as it holds: scores and confidences are in [0,1] on every path; the
\* decision is the threshold class of the score for a verdict of the full
\* rule evaluation and for a reject or flag short-circuit, while the error
\* fallback (under_review at 0.5) and the manual-review short-circuit
\* (under_review at 0.3) keep their fixed decision, also on a cache hit.
C1_VerdictWellFormedByPath ==
  \A i \in 1..Len(reqs) :
    (Answered(i) /\ ~isBlank(reqs[i].text)) =>
      LET v == Verdict(i)
          classed == InClass(v.decision, v.overallScore)
      IN /\ InUnit(v.overallScore)
         /\ InUnit(v.confidence)
         /\ (reqs[i].path = "full" /\ ~reqs[i].fault) => classed
         /\ (reqs[i].path = "full" /\ reqs[i].fault) => IsFallback(v)
         /\ reqs[i].path = "edge" => (IF v.decision = "under_review"
                                      THEN IsManualReview(v) ELSE classed)
         /\ reqs[i].path = "hit" => (classed \/ IsFallback(v))

C1_Witness ==
  \E i \in 1..Len(reqs) :
    /\ Answered(i)
    /\ reqs[i].path = "full"
    /\ ~reqs[i].fault
    /\ Verdict(i).decision = "under_review"
    /\ Verdict(i).overallScore = Rat(6, 10)

\* C2: analyze raises exactly when the text is empty or blank: a blank text
\* raises an input error instead of returning a Verdict, and every non-blank
\* text returns a Verdict.
C2_InputError ==
  \A i \in 1..Len(reqs) :
    reqs[i].pc = "done" => (isBlank(reqs[i].text) <=> reqs[i].out = Raised)

\* C2 in SpamDetectionService alone, where it holds.
C2_InputErrorBasic == svc.kind = "basic" => C2_InputError

\* C3: when the engine fails inside during analyze of a non-blank text,
\* analyze does not raise: it returns the fallback Verdict, decision
\* under_review, overallScore 0.5, confidence 0.1, no signals.
C3_Fallback ==
  \A i \in 1..Len(reqs) :
    (reqs[i].pc = "done" /\ reqs[i].fault /\ ~isBlank(reqs[i].text)) =>
      /\ reqs[i].out.kind = "returned"
      /\ IsFallback(Verdict(i))

C3_Witness ==
  \E i \in 1..Len(reqs) :
    /\ reqs[i].pc = "done"
    /\ reqs[i].fault
    /\ reqs[i].path = "full"
    /\ Verdict(i).decision = "under_review"

\* A step that is one analyzeContent call, and the text it is called with.
IsAnalyze == Len(reqs') = Len(reqs) + 1
Called == reqs'[Len(reqs')]
CompletedBefore(t) ==
  \E i \in 1..Len(reqs) : Answered(i) /\ reqs[i].text = t
\* When the latest entry under the fingerprint of t was stored, -1 if never.
RECURSIVE LastStored(_, _)
LastStored(t, n) ==
  IF n = 0 THEN -1
  ELSE IF createContentHash(reqs[n].text) = createContentHash(t)
       THEN Max(reqs[n].stored, LastStored(t, n - 1))
       ELSE LastStored(t, n - 1)
ServedFromCache ==
  /\ Called.pc = "done"
  /\ Called.path = "hit"
  /\ hits' = hits + 1

\* C4: once analyze(x) has completed, a later analyze(x) issued before the
\* entry's ttl expires is served from the cache: the rule pipeline is not
\* run again and the cache's hit counter increases by one.
C4_RoundTrip ==
  [][(IsAnalyze /\ CompletedBefore(Called.text)
        /\ LastStored(Called.text, Len(reqs)) # -1
        /\ now <= LastStored(Called.text, Len(reqs)) + defaultTtl)
       => ServedFromCache]_vars

\* C4 as it holds: the later analyze(x) is served from the cache when x is
\* not short-circuited by the edge-case classifier and the entry stored under
\* its fingerprint is still in the cache (not evicted by a later insertion,
\* not cleared) and its ttl has not expired.
C4_RoundTripWhileStored ==
  [][(IsAnalyze /\ CompletedBefore(Called.text)
        /\ ~isBlank(Called.text)
        /\ (svc.kind = "enhanced" => ~handleEdgeCase(Called.text, now).handled)
        /\ IndexOf(cache, createContentHash(Called.text)) # 0
        /\ LET e == cache[IndexOf(cache, createContentHash(Called.text))]
           IN now <= e.timestamp + e.ttl)
       => ServedFromCache]_vars

C4_Witness ==
  \E i, j \in 1..Len(reqs) :
    /\ i < j
    /\ reqs[i].text = reqs[j].text
    /\ reqs[i].path = "full"
    /\ reqs[j].path = "hit"
    /\ now = reqs[i].stored + defaultTtl
    /\ hits = 1

\* C5: two analyze calls on identical text return Verdicts with the same
\* fingerprint and, when the cache dropped no entry between them, the same
\* decision and overallScore; short-circuited texts included.
C5_Idempotence ==
  \A i, j \in 1..Len(reqs) :
    (i < j /\ Answered(i) /\ Answered(j) /\ reqs[i].text = reqs[j].text) =>
      /\ Verdict(i).contentHash = Verdict(j).contentHash
      /\ reqs[i].epoch = reqs[j].epoch =>
           /\ Verdict(i).decision = Verdict(j).decision
           /\ Verdict(i).overallScore = Verdict(j).overallScore

\* The fingerprint half of C5 in SpamDetectionService alone, where it holds.
C5_FingerprintBasic ==
  svc.kind = "basic" =>
    \A i, j \in 1..Len(reqs) :
      (Answered(i) /\ Answered(j) /\ reqs[i].text = reqs[j].text) =>
        Verdict(i).contentHash = Verdict(j).contentHash

\* C8: analyzeBatch([]) returns an empty list, and analyzeBatch of N texts
\* returns exactly N Verdicts, the i-th being the result of the analysis of
\* the i-th text, in whatever order the analyses complete.
C8_BatchOrder ==
  batch.pc = "done" =>
    /\ batch.out.kind = "returned"
    /\ Len(batch.out.value) = Len(batch.contents)
    /\ \A k \in 1..Len(batch.contents) :
         /\ reqs[batch.items[k]].text = batch.contents[k]
         /\ reqs[batch.items[k]].out = Returned(batch.out.value[k])

\* C8 for the batches it holds on: none of whose items raised.
C8_BatchOrderAnswered ==
  (batch.pc = "done" /\ \A k \in 1..Len(batch.items) : reqs[batch.items[k]].out # Raised)
    => C8_BatchOrder

\* A text of whitespace only: not the empty string, empty once trimmed.
IsWhitespaceOnly(t) == length(t) > 0 /\ length(trim(t)) = 0

\* C12: analyze of a whitespace-only text returns a Verdict with decision
\* reject, the one the empty-content edge case produces.
C12_WhitespaceReject ==
  \A i \in 1..Len(reqs) :
    (reqs[i].pc = "done" /\ IsWhitespaceOnly(reqs[i].text)) =>
      /\ reqs[i].out.kind = "returned"
      /\ Verdict(i).decision = "reject"
      /\ reqs[i].path = "edge"

\* What the code does on a whitespace-only text: the edge-case handler on its
\* own would reject it, but the validation in front of it answers first, with
\* an error in SpamDetectionService and the fallback Verdict in
\* EnhancedSpamDetectionService.
C12_WhitespaceNeverReachesHandler ==
  \A i \in 1..Len(reqs) :
    (reqs[i].pc = "done" /\ IsWhitespaceOnly(reqs[i].text)) =>
      /\ handleEdgeCase(reqs[i].text, now).handled
      /\ handleEdgeCase(reqs[i].text, now).result.decision = "reject"
      /\ reqs[i].path = "invalid"
      /\ IF svc.kind = "basic" THEN reqs[i].out = Raised
         ELSE Answered(i) /\ IsFallback(Verdict(i))

\* Ordinary content: words, and no control or zero-width characters.
Ordinary(t) ==
  features(t).words > 0 /\ features(t).ctrl = 0 /\ features(t).zw = 0
\* No extractor emits a signal on t.
Silent(t) ==
  \A k \in 1..Len(getAllDetectionRules) :
    execute(getAllDetectionRules[k].name, t) = NoSignal
\* No analysis under the fingerprint of request i failed inside the engine.
Unfailed(i) ==
  \A j \in 1..Len(reqs) :
    createContentHash(reqs[j].text) = createContentHash(reqs[i].text) => ~reqs[j].fault
\* No other text was analysed under the fingerprint of request i.
Unaliased(i) ==
  \A j \in 1..Len(reqs) :
    createContentHash(reqs[j].text) = createContentHash(reqs[i].text)
      => reqs[j].text = reqs[i].text

IsCleanAllow(v) ==
  /\ v.decision = "allow"
  /\ v.indicators = <<>>
  /\ v.overallScore = Zero
  /\ v.confidence = One

\* C13: for ordinary content on which no extractor emits a signal, analyze
\* returns decision allow with an empty signal list, overallScore 0 and
\* confidence 1.0.
C13_CleanAllow ==
  \A i \in 1..Len(reqs) :
    (reqs[i].pc = "done" /\ Ordinary(reqs[i].text) /\ Silent(reqs[i].text)
       /\ Unfailed(i))
    => Answered(i) /\ IsCleanAllow(Verdict(i))

\* Where C13 holds: the text is not one the edge-case handler of
\* EnhancedSpamDetectionService handles, and no variant of it in letter case
\* or surrounding whitespace was analysed under the same fingerprint.
C13_CleanAllowUnhandled ==
  \A i \in 1..Len(reqs) :
    (reqs[i].pc = "done" /\ Ordinary(reqs[i].text) /\ Silent(reqs[i].text)
       /\ Unfailed(i) /\ Unaliased(i)
       /\ (svc.kind = "enhanced" => ~handleEdgeCase(reqs[i].text, now).handled))
    => Answered(i) /\ IsCleanAllow(Verdict(i))

\* The spec's example in EnhancedSpamDetectionService: flagged as of unknown
\* language, at overallScore 0.5 and confidence 0.8.
C13_ExampleFlagged ==
  \A i \in 1..Len(reqs) :
    (svc.kind = "enhanced" /\ reqs[i].text = Text("coffee", 0, FALSE)) =>
      /\ Answered(i)
      /\ reqs[i].path = "edge"
      /\ Verdict(i).decision = "flag"
      /\ Verdict(i).overallScore = Rat(5, 10)
      /\ Verdict(i).confidence = Rat(8, 10)

\* The Verdict the full rule pipeline computes for the text of request i.
SameVerdict(v, w) ==
  /\ v.decision = w.decision
  /\ v.overallScore = w.overallScore
  /\ v.confidence = w.confidence
  /\ v.indicators = w.indicators

\* C14: a failure of the cache during analyze (get or set throwing) is
\* treated as a cache miss: analyze runs the full rule pipeline on the text
\* and returns the Verdict the pipeline computes, neither an error nor the
\* fallback Verdict.
C14_CacheFailureIsMiss ==
  \A i \in 1..Len(reqs) :
    (reqs[i].pc = "done" /\ reqs[i].threw # "none" /\ ~reqs[i].fault) =>
      /\ Answered(i)
      /\ SameVerdict(Verdict(i), engineAnalyze(reqs[i].text, FALSE))
      /\ ~IsFallback(Verdict(i))

\* What a cache failure leads to in the code: an error to the caller in
\* SpamDetectionService, the fallback Verdict in EnhancedSpamDetectionService.
C14_CacheFailureOutcome ==
  \A i \in 1..Len(reqs) :
    (reqs[i].pc = "done" /\ reqs[i].threw # "none") =>
      IF svc.kind = "basic" THEN reqs[i].out = Raised
      ELSE Answered(i) /\ IsFallback(Verdict(i))

\* C15: analyzeBatch behaves as independent single analyses: whatever the
\* other items of the batch come to, an input error on a blank item included,
\* the batch returns for every item whose own analysis returned a Verdict
\* that very Verdict.
C15_BatchIndependence ==
  batch.pc = "done" =>
    \A k \in 1..Len(batch.items) :
      Answered(batch.items[k]) =>
        /\ batch.out.kind = "returned"
        /\ batch.out.value[k] = Verdict(batch.items[k])

\* C15 where it holds: in EnhancedSpamDetectionService, whose item analyses
\* never raise, and in SpamDetectionService on batches without a blank item.
C15_BatchIndependenceNoBlank ==
  (batch.pc = "done"
     /\ (svc.kind = "basic" => \A k \in 1..Len(batch.contents) : ~isBlank(batch.contents[k])))
    => C15_BatchIndependence

\* A step in which request i resumes after its await and stores its result.
IsStore(i) == reqs[i].pc = "await" /\ reqs'[i].pc = "done"
Fingerprint(i) == createContentHash(reqs[i].text)

\* C16: with several analyze requests in flight on one cache, the store of a
\* request evicts at most one entry and only when its fingerprint becomes
\* newly stored, and a store into a full cache leaves it full: requests in
\* flight for the same uncached text on a full cache of capacity N leave
\* exactly N entries.
C16_NoDoubleEviction ==
  [][\A i \in 1..Len(reqs) :
       IsStore(i) =>
         /\ svc'.removals - svc.removals
              <= (IF IndexOf(cache, Fingerprint(i)) = 0 THEN 1 ELSE 0)
         /\ Len(cache) = maxEntries => Len(cache') = maxEntries]_vars

\* C16 for the stores it holds on: those whose fingerprint is not in the
\* cache when they store; and every lookup is counted once.
C16_FreshStore ==
  [][/\ \A i \in 1..Len(reqs) :
          (IsStore(i) /\ IndexOf(cache, Fingerprint(i)) = 0) =>
            /\ svc'.removals - svc.removals <= 1
            /\ Len(cache) = maxEntries => Len(cache') = maxEntries
     /\ (IsAnalyze /\ Called.path # "edge") =>
          hits' + misses' = hits + misses + 1]_vars

\* A step that is an operation of the monitor alone: the monitor changes and
\* no analysis starts or resumes.
IsMonitorOp ==
  /\ svc'.monitor # svc.monitor
  /\ Len(reqs') = Len(reqs)
  /\ \A i \in 1..Len(reqs) : reqs'[i].pc = reqs[i].pc
\* The state of the service as it would be with a monitor never used.
FreshMonitorState == [State EXCEPT !.monitor = NewMonitor]

\* C17: the monitor is observational only.  An operation of the monitor
\* changes no Verdict and nothing of the cache; and whatever state the monitor
\* is in, analyzeContent returns what it returns with a monitor never used,
\* and does to the cache what it does then, both up to its await and when it
\* resumes with the engine's answer.
C17_MonitorObservational ==
  [][/\ IsMonitorOp =>
          /\ reqs' = reqs
          /\ cache' = cache /\ hits' = hits /\ misses' = misses
     /\ IsAnalyze =>
          LET fresh == startAnalyze(svc.kind, Called.text, FreshMonitorState, now)
          IN /\ Called = fresh.req
             /\ cache' = fresh.st.cache
             /\ hits' = fresh.st.hits
             /\ misses' = fresh.st.misses
     /\ \A i \in 1..Len(reqs) :
          IsStore(i) =>
            /\ reqs'[i].out = Returned(engineAnalyze(reqs[i].text, reqs'[i].fault))
            /\ cache' = set(cache, Fingerprint(i), reqs'[i].out.value, Undefined,
                            now, maxEntries, defaultTtl)]_vars

\* A cache hit served by the enhanced service after errors were recorded and
\* the metrics were reset since the entry was stored.
C17_Witness ==
  /\ svc.kind = "enhanced"
  /\ svc.monitor.errorCount = 1
  /\ svc.monitor.requestCount = 0
  /\ svc.monitor.cacheHits = 1
  /\ Len(cache) = 1
  /\ \E i \in 1..Len(reqs) : Answered(i) /\ reqs[i].path = "hit"

\* The Verdict of every stored entry is the one a request stored under that
\* fingerprint at that time.
StoredAsReturned ==
  \A k \in 1..Len(cache) :
    \E j \in 1..Len(reqs) :
      /\ reqs[j].stored = cache[k].timestamp
      /\ Fingerprint(j) = cache[k].key
      /\ reqs[j].out = Returned(cache[k].value)

\* A call served from the cache returns the stored Verdict with only
\* processingTime replaced, and leaves the stored Verdict as it is.
ServesStoredVerdict ==
  (IsAnalyze /\ Called.path = "hit") =>
    LET k == IndexOf(cache, createContentHash(Called.text))
        v == Called.out.value
    IN /\ k # 0
       /\ SameVerdict(v, cache[k].value)
       /\ v.contentHash = cache[k].value.contentHash
       /\ v.processingTime = (IF svc.kind = "basic" THEN "0.1" ELSE "elapsed")
       /\ v = [cache[k].value EXCEPT !.processingTime = v.processingTime]
       /\ IndexOf(cache', cache[k].key) = k
       /\ cache'[k].value = cache[k].value

\* C18: a Verdict served from the cache has the decision, overallScore,
\* confidence, signals and fingerprint of the Verdict that was stored, however
\* many times it is retrieved; only processingTime is replaced by a value of
\* the retrieval, and the stored Verdict is not modified by the retrieval.
C18_CachedVerdictImmutable ==
  /\ []StoredAsReturned
  /\ [][ServesStoredVerdict]_vars

\* One Verdict stored and retrieved twice.
C18_Witness ==
  \E i, j, k \in 1..Len(reqs) :
    /\ i < j /\ j < k
    /\ reqs[i].path = "full" /\ reqs[i].stored # -1
    /\ reqs[j].path = "hit" /\ reqs[k].path = "hit"
    /\ reqs[j].text = reqs[i].text /\ reqs[k].text = reqs[i].text
    /\ Len(cache) = 1 /\ cache[1].hits = 2
    /\ Verdict(k).processingTime # cache[1].value.processingTime
    /\ SameVerdict(Verdict(k), Verdict(i))

\* C19: SpamDetectionService.analyzeContent on content longer than 280
\* characters fails with a validation error instead of returning a Verdict,
\* as it does on empty content.
C19_LongContentRaises ==
  \A i \in 1..Len(reqs) :
    (svc.kind = "basic" /\ reqs[i].pc = "done"
       /\ length(reqs[i].text) > ANALYSIS_CONFIG.maxContentLength)
    => reqs[i].out = Raised

\* What the code does: content of any length that is not blank is analysed,
\* and the 300 letters a get the Verdict of the rule pipeline, reject on the
\* repetitive_content signal alone.
C19_LongContentAnalysed ==
  \A i \in 1..Len(reqs) :
    (svc.kind = "basic" /\ reqs[i].pc = "done" /\ Unfailed(i)
       /\ reqs[i].text = Text("a300", 0, FALSE))
    => /\ Answered(i)
       /\ Verdict(i).decision = "reject"
       /\ Len(Verdict(i).indicators) = 1
       /\ Verdict(i).indicators[1].type = "repetitive_content"

\* The order of the predicates of the edge-case classifier, by name.
ClaimedOrder ==
  << "empty content", "extreme length", "encoding anomaly", "obfuscation",
     "unknown language", "special-character density", "contextual" >>
PredicateOf(reason) ==
  CASE reason \in {"Empty content after preprocessing", "No meaningful words found"}
         -> "empty content"
    [] reason \in {"Extremely short content", "Content exceeds reasonable length"}
         -> "extreme length"
    [] reason \in {"Significant character loss during preprocessing",
                   "Multiple Unicode encoding issues detected"}
         -> "encoding anomaly"
    [] reason \in {"Excessive zero-width characters detected",
                   "Potential homograph attack detected",
                   "Excessive symbol substitution detected"}
         -> "obfuscation"
    [] reason = "Unknown language with suspicious length" -> "unknown language"
    [] reason = "Excessive special characters detected" -> "special-character density"
    [] reason \in {"Minimal text with URLs/hashtags", "Excessive mentions"}
         -> "contextual"
    [] OTHER -> "none"
\* What each predicate, taken alone, answers on a content.
Answers(t, tnow) ==
  {o \in { handleEmptyContent(features(t), tnow), handleExtremeLength(features(t), tnow),
           handleEncodingIssues(features(t), tnow), handleObfuscation(features(t), tnow),
           handleNonEnglishContent(features(t), tnow),
           handleSpecialCharacters(features(t), tnow),
           handleContextualEdgeCases(features(t), tnow) } : o.handled}
Matching(t, tnow) == {k \in 1..Len(ClaimedOrder) :
                       \E o \in Answers(t, tnow) : PredicateOf(o.reason) = ClaimedOrder[k]}
Earliest(t, tnow) ==
  CHOOSE k \in Matching(t, tnow) : \A j \in Matching(t, tnow) : k <= j
FirstMatchWins(t, tnow, outcome) ==
  IF Matching(t, tnow) = {}
  THEN ~outcome.handled
  ELSE /\ outcome \in Answers(t, tnow)
       /\ PredicateOf(outcome.reason) = ClaimedOrder[Earliest(t, tnow)]
ProceedsAsClassified(i) ==
  IF handleEdgeCase(reqs[i].text, now).handled
  THEN /\ reqs[i].path = "edge"
       /\ reqs[i].pc = "done"
       /\ Verdict(i) = [handleEdgeCase(reqs[i].text, now).result
                          EXCEPT !.processingTime = "elapsed"]
  ELSE reqs[i].path \in {"full", "hit"}
\* C20: handleEdgeCase tries its predicates in the order empty content,
\* extreme length, encoding anomaly, obfuscation, unknown language,
\* special-character density, contextual, and returns the outcome of the first
\* that matches; when several match, the earliest of this order decides; when
\* none matches the outcome is not handled and analyzeContent goes on to the
\* full rule evaluation.
C20_FirstMatchWins ==
  /\ eng.pc = "classified" => FirstMatchWins(eng.content, now, eng.outcome)
  /\ \A i \in 1..Len(reqs) :
       (svc.kind = "enhanced" /\ ~isBlank(reqs[i].text)) => ProceedsAsClassified(i)

\* C20 on every string but the empty one.
C20_FirstMatchWinsNonEmpty ==
  /\ (eng.pc = "classified" /\ length(eng.content) > 0)
       => FirstMatchWins(eng.content, now, eng.outcome)
  /\ \A i \in 1..Len(reqs) :
       (svc.kind = "enhanced" /\ ~isBlank(reqs[i].text)) => ProceedsAsClassified(i)

\* C20 where several predicates match: the earliest one decided.
C20_SeveralMatch ==
  /\ eng.pc = "classified"
  /\ Cardinality(Matching(eng.content, now)) > 1
  /\ PredicateOf(eng.outcome.reason) = "obfuscation"

\* C20 on the empty string: the outcome is of none of the predicates.
C20_EmptyStringOutcome ==
  (eng.pc = "classified" /\ length(eng.content) = 0)
  => /\ eng.outcome.handled
     /\ PredicateOf(eng.outcome.reason) = "none"
     /\ eng.outcome.recommendedAction = "manual_review"
     /\ Matching(eng.content, now) = {1}

\* The decision class of a recommended action, and the score of a class.
ClassOfAction(action) == IF action = "manual_review" THEN "under_review" ELSE action
ClassScore(decision) ==
  CASE decision = "reject" -> Rat(9, 10)
    [] decision = "flag" -> Rat(5, 10)
    [] decision = "under_review" -> Rat(3, 10)
    [] OTHER -> Rat(0, 1)
FixedByClass(v) ==
  /\ v.confidence = Rat(8, 10)
  /\ v.decision \in {"reject", "flag", "under_review"}
  /\ v.overallScore = ClassScore(v.decision)
ShortCircuited(i) == svc.kind = "enhanced" /\ reqs[i].path = "edge" /\ Answered(i)

\* C21: every short-circuit Verdict of the edge-case classifier has confidence
\* 0.8, the overallScore of its decision class (reject 0.9, flag 0.5,
\* under_review 0.3) whatever signals it carries, and the decision that is the class
\* of the outcome's recommended action (manual_review for under_review).
C21_ShortCircuitVerdict ==
  /\ (eng.pc = "classified" /\ eng.outcome.handled)
       => /\ FixedByClass(eng.outcome.result)
          /\ eng.outcome.result.decision = ClassOfAction(eng.outcome.recommendedAction)
  /\ \A i \in 1..Len(reqs) :
       ShortCircuited(i)
       => /\ FixedByClass(Verdict(i))
          /\ Verdict(i).decision
               = ClassOfAction(handleEdgeCase(reqs[i].text, now).recommendedAction)

\* C21 without the agreement of the decision with the recommended action.
C21_FixedScores ==
  /\ (eng.pc = "classified" /\ eng.outcome.handled) => FixedByClass(eng.outcome.result)
  /\ \A i \in 1..Len(reqs) : ShortCircuited(i) => FixedByClass(Verdict(i))

\* C21: the decision differs from the class of the recommended action only in
\* the outcomes of the obfuscation predicate.
C21_MismatchOnlyObfuscation ==
  (eng.pc = "classified" /\ eng.outcome.handled
     /\ PredicateOf(eng.outcome.reason) # "obfuscation")
  => eng.outcome.result.decision = ClassOfAction(eng.outcome.recommendedAction)

ObfuscationFirst(t, tnow) ==
  /\ length(t) > 0
  /\ Matching(t, tnow) # {}
  /\ ClaimedOrder[Earliest(t, tnow)] = "obfuscation"
ClaimedObfuscationClass(f) ==
  IF f.zw > 10 THEN "reject" ELSE "flag"

\* C22: when the obfuscation predicate is the first to match, the outcome and
\* the Verdict it carries are reject for more than 10 zero-width characters,
\* flag for a mixed Cyrillic/Latin homograph pattern and flag for a
\* symbol-to-letter ratio above 0.3.
C22_ObfuscationClass ==
  /\ (eng.pc = "classified" /\ ObfuscationFirst(eng.content, now))
       => /\ eng.outcome.recommendedAction = ClaimedObfuscationClass(features(eng.content))
          /\ eng.outcome.result.decision = ClaimedObfuscationClass(features(eng.content))
  /\ \A i \in 1..Len(reqs) :
       (ShortCircuited(i) /\ ObfuscationFirst(reqs[i].text, now))
       => Verdict(i).decision = ClaimedObfuscationClass(features(reqs[i].text))

\* C22 as the code has it: the recommended action is as claimed, the Verdict
\* is always a reject of score 0.9.
C22_ObfuscationAlwaysRejects ==
  (eng.pc = "classified" /\ ObfuscationFirst(eng.content, now))
  => /\ eng.outcome.recommendedAction = ClaimedObfuscationClass(features(eng.content))
     /\ eng.outcome.result.decision = "reject"
     /\ eng.outcome.result.overallScore = Rat(9, 10)

\* No predicate before the unknown-language one matches the text, and its
\* language tag is unknown.
ReachesLanguage(t, tnow) ==
  /\ length(t) > 0
  /\ \A k \in Matching(t, tnow) : k >= 5
  /\ detectBasicLanguage(features(t)) = "unknown"
FlaggedForLanguage(o) ==
  /\ o.handled
  /\ PredicateOf(o.reason) = "unknown language"
  /\ o.recommendedAction = "flag"
  /\ o.result.decision = "flag"
LanguageByWordCount(lo, hi) ==
  (eng.pc = "classified" /\ ReachesLanguage(eng.content, now))
  => IF features(eng.content).words \in lo..hi
     THEN FlaggedForLanguage(eng.outcome)
     ELSE /\ ~handleNonEnglishContent(features(eng.content), now).handled
          /\ PredicateOf(eng.outcome.reason) # "unknown language"

\* C23: when no earlier predicate matches, content of unknown language with 5
\* to 19 words is short-circuited with flag, and content of unknown language
\* with fewer than 5 or more than 19 words is not matched by this predicate.
C23_UnknownLanguage5to19 == LanguageByWordCount(5, 19)

\* C23 with the bounds of the code: more than 5 and fewer than 20 words.
C23_UnknownLanguage6to19 == LanguageByWordCount(6, 19)

\* C23 at five words: the content is not handled.
C23_FiveWordsUnhandled ==
  (eng.pc = "classified" /\ ReachesLanguage(eng.content, now)
     /\ features(eng.content).words = 5)
  => ~eng.outcome.handled

\* The Verdict of request i has the decision and overallScore the rule
\* pipeline computes on the raw text of the request.
AsPipeline(i) ==
  /\ Verdict(i).decision = engineAnalyze(reqs[i].text, FALSE).decision
  /\ Verdict(i).overallScore = engineAnalyze(reqs[i].text, FALSE).overallScore
IsHit(i) == reqs[i].path = "hit" /\ Answered(i)

\* C27: the decision and overallScore returned for a text on a cache hit are
\* what the rule pipeline would compute for the raw text of that request, also
\* when the entry was stored by an earlier request whose text differs from it
\* only in letter case or surrounding whitespace.
C27_CacheTransparent ==
  \A i \in 1..Len(reqs) : (IsHit(i) /\ Unfailed(i)) => AsPipeline(i)

\* C27 when every request under the fingerprint had the same raw text.
C27_TransparentUnaliased ==
  \A i \in 1..Len(reqs) : (IsHit(i) /\ Unfailed(i) /\ Unaliased(i)) => AsPipeline(i)

\* C27 as the code has it: a hit returns what the pipeline computed for the
\* text of the request that stored the entry.
C27_HitServesStoringText ==
  \A i \in 1..Len(reqs) :
    (IsHit(i) /\ Unfailed(i)) =>
      \E j \in 1..(i - 1) :
        /\ reqs[j].path = "full"
        /\ createContentHash(reqs[j].text) = createContentHash(reqs[i].text)
        /\ Verdict(i).decision = engineAnalyze(reqs[j].text, FALSE).decision
        /\ Verdict(i).overallScore = engineAnalyze(reqs[j].text, FALSE).overallScore

\* A step in which EnhancedSpamDetectionService.analyzeContent returns the
\* Verdict of the edge-case classifier.
ShortCircuitStep == IsAnalyze /\ svc.kind = "enhanced" /\ Called.path = "edge"

\* C28: an analysis short-circuited by the edge-case classifier leaves the
\* cache unchanged: no lookup and no store, so the entries, their hit
\* counters, the global hit and miss counters and the monitor's cache hit and
\* miss counters are after the call what they were before it.
C28_ShortCircuitLeavesCache ==
  [][ShortCircuitStep
       => /\ cache' = cache
          /\ hits' = hits
          /\ misses' = misses
          /\ svc'.monitor.cacheHits = svc.monitor.cacheHits
          /\ svc'.monitor.cacheMisses = svc.monitor.cacheMisses
          /\ svc'.removals = svc.removals]_vars

\* A short-circuited analysis after analyses that went through the cache.
C28_Witness ==
  /\ svc.kind = "enhanced"
  /\ Len(reqs) >= 3
  /\ reqs[Len(reqs)].path = "edge" /\ Answered(Len(reqs))
  /\ \E i \in 1..(Len(reqs) - 1) : reqs[i].path = "hit"
  /\ Len(cache) >= 1
  /\ hits >= 1 /\ misses >= 1
  /\ svc.monitor.cacheHits = hits /\ svc.monitor.cacheMisses = misses

\* The monitor of an EnhancedSpamDetectionService that recorded something.
Recorded ==
  /\ svc.kind = "enhanced"
  /\ svc.monitor # NewMonitor

\* C29: after any sequence of analyses recorded by
\* EnhancedSpamDetectionService, the rates of getMetrics stay within [0,1]:
\* errorRate = errorCount / requestCount and cacheHitRate never exceed 1, and
\* both are 0 when their denominator is 0.
C29_RatesInUnit ==
  Recorded
  => /\ InUnit(getMetrics(svc.monitor).errorRate)
     /\ InUnit(getMetrics(svc.monitor).cacheHitRate)
     /\ svc.monitor.requestCount = 0 => getMetrics(svc.monitor).errorRate = Zero
     /\ svc.monitor.cacheHits + svc.monitor.cacheMisses = 0
          => getMetrics(svc.monitor).cacheHitRate = Zero

\* C29 without the bound on errorRate.
C29_CacheHitRateInUnit ==
  Recorded
  => /\ RatLe(Zero, getMetrics(svc.monitor).errorRate)
     /\ InUnit(getMetrics(svc.monitor).cacheHitRate)
     /\ svc.monitor.requestCount = 0 => getMetrics(svc.monitor).errorRate = Zero
     /\ svc.monitor.cacheHits + svc.monitor.cacheMisses = 0
          => getMetrics(svc.monitor).cacheHitRate = Zero

\* C29 as the code counts: requestCount counts the analyses and batches that
\* recorded a processing time, errorCount those that failed, and neither
\* counts the other.
C29_ErrorsNotRequests ==
  Recorded
  => /\ svc.monitor.requestCount = svc.monitor.samples
     /\ svc.monitor.errorCount + svc.monitor.requestCount + svc.monitor.cacheHits
          >= Cardinality({i \in 1..Len(reqs) : reqs[i].pc = "done"})

\* ------------------------------------------------- claims on the MemoryCache
\* Which call a step of SpecCache is: every call but Tick leaves the clock
\* alone and records itself in last.
IsCall(name) == now' = now /\ last'.op = name
IsGet == hits' + misses' = hits + misses + 1

\* The entry the claims expect a full cache to give up: lowest
\* hits / max(ageHours, 0.1), the first in insertion order among the lowest.
ClaimedVictim(c, t) ==
  CHOOSE i \in 1..Len(c) :
    /\ \A j \in 1..Len(c) : RatLe(evictionScore(c[i], t), evictionScore(c[j], t))
    /\ \A j \in 1..(i - 1) : ~RatEq(evictionScore(c[i], t), evictionScore(c[j], t))

EvictsClaimedVictim ==
  (IsCall("set") /\ IndexOf(cache, last'.key) = 0 /\ Len(cache) >= maxEntries
     /\ Len(cache) > 0)
  => /\ Len(cache') = Len(cache)
     /\ SubSeq(cache', 1, Len(cache') - 1) = RemoveAt(cache, ClaimedVictim(cache, now))
     /\ cache'[Len(cache')].key = last'.key

FilledPastCapacity == inserted.ok /\ Cardinality(inserted.keys) = maxEntries + 1

\* C6: inserting N+1 distinct fingerprints with set into a cache built with
\* maxEntries = N leaves exactly N entries, and the entry removed by the
\* insertion that found the cache full is the one with the lowest score
\* hits / max(ageHours, 0.1), the first in insertion order among the lowest.
C6_CapacityEviction ==
  /\ [](FilledPastCapacity => Len(cache) = maxEntries)
  /\ [][EvictsClaimedVictim]_vars

\* C6 for the capacities at which it holds: every maxEntries >= 1.
C6_CapacityEvictionPositive ==
  /\ [](FilledPastCapacity /\ maxEntries >= 1 => Len(cache) = maxEntries)
  /\ [][EvictsClaimedVictim]_vars

\* A cache of capacity >= 1 that was filled past capacity and evicted.
C6_Witness ==
  /\ FilledPastCapacity /\ maxEntries >= 1
  /\ last.op = "set" /\ last.evicted
  /\ \E i \in 1..Len(cache) : cache[i].hits > 0

\* The T of the claim for a stored entry: the ttl argument of the set call
\* that stored it, the default ttl when none was given.
ClaimedTtl(e) == IF e.arg = Undefined THEN defaultTtl ELSE e.arg[1]
ClaimedExpired(e, t) == t > e.timestamp + ClaimedTtl(e)

ExpiryOnGet ==
  (IsGet /\ IndexOf(cache, last'.key) # 0) =>
    LET e == cache[IndexOf(cache, last'.key)] IN
      IF ClaimedExpired(e, now)
      THEN last'.ret = NoResult /\ IndexOf(cache', e.key) = 0
      ELSE last'.ret = e.value

ExpiryOnHas ==
  (IsCall("has") /\ IndexOf(cache, last'.key) # 0) =>
    LET e == cache[IndexOf(cache, last'.key)] IN
      IF ClaimedExpired(e, now)
      THEN last'.ret = FALSE /\ IndexOf(cache', e.key) = 0
      ELSE last'.ret = TRUE

ExpiryOnCleanup ==
  IsCall("cleanup") =>
    cache' = SelectSeq(cache, LAMBDA e : ~ClaimedExpired(e, now))

\* C7: an entry stored by set(fp, verdict, T) is reported absent by get and
\* has at every time later than insertion + T and is still returned up to
\* and including insertion + T; without a ttl argument the default ttl is T;
\* the expired entry is removed by that read or by cleanup().
C7_Expiry == [][ExpiryOnGet /\ ExpiryOnHas /\ ExpiryOnCleanup]_vars

\* C7 for the calls on which it holds: a ttl argument other than 0, or none,
\* and a default ttl other than 0.
C7_ExpiryNonZero ==
  [][(\A i \in 1..Len(cache) : ClaimedTtl(cache[i]) # 0)
       => (ExpiryOnGet /\ ExpiryOnHas /\ ExpiryOnCleanup)]_vars

\* A get of a key that is stored and not expired counts one hit, on the entry
\* and globally, and changes nothing else; any other get counts one miss and
\* no hit.
AccountsRead(Expired(_, _)) ==
  IsCall("get") =>
    IF IndexOf(cache, last'.key) # 0
         /\ ~Expired(cache[IndexOf(cache, last'.key)], now)
    THEN /\ hits' = hits + 1
         /\ misses' = misses
         /\ cache' = [cache EXCEPT ![IndexOf(cache, last'.key)].hits = @ + 1]
    ELSE /\ misses' = misses + 1
         /\ hits' = hits
         /\ \A j \in 1..Len(cache') : \E i \in 1..Len(cache) : cache'[j] = cache[i]
\* The counters move on a get only: clear puts them back to 0 and every other
\* call leaves them, so that hits + misses is the number of get calls since
\* construction or the last clear.
CountsOnlyReads ==
  /\ IsCall("get") => hits' + misses' = hits + misses + 1
  /\ IsCall("clear") => (hits' = 0 /\ misses' = 0)
  /\ ~(IsCall("get") \/ IsCall("clear")) => (hits' = hits /\ misses' = misses)
KeepsHitCounters ==
  ~IsCall("get") =>
    \A j \in 1..Len(cache') :
      \/ \E i \in 1..Len(cache) : cache'[j] = cache[i]
      \/ IsCall("set") /\ cache'[j].key = last'.key /\ cache'[j].hits = 0

\* C24: every get on a stored, unexpired entry adds exactly one to that
\* entry's hit counter and one to the global hit counter; every get on an
\* absent or expired key adds exactly one to the global miss counter; hits +
\* misses is the number of get calls since construction or the last clear and
\* no read is counted twice.
C24_ReadAccounting ==
  [][AccountsRead(ClaimedExpired) /\ CountsOnlyReads /\ KeepsHitCounters]_vars

\* C24 for the entries on which C7 holds: stored with a ttl argument other
\* than 0, or with none.
C24_ReadAccountingNonZero ==
  [][/\ (\A i \in 1..Len(cache) : ClaimedTtl(cache[i]) # 0)
          => AccountsRead(ClaimedExpired)
     /\ AccountsRead(isExpired)
     /\ CountsOnlyReads
     /\ KeepsHitCounters]_vars

\* C25: after any sequence of set, get, has, delete, cleanup and clear on a
\* MemoryCache built with any maxEntries >= 0, the number of stored entries
\* never exceeds maxEntries.
C25_SizeBounded == Len(cache) <= maxEntries

\* C25 for every maxEntries >= 1.
C25_SizeBoundedPositive == maxEntries >= 1 => Len(cache) <= maxEntries

\* C25 at maxEntries = 0: a cache that has stored anything holds one entry.
C25_ZeroCapacityHoldsOne ==
  (maxEntries = 0 /\ last.op = "set") => Len(cache) = 1

\* A set on a stored key: the key's entry is fresh and every other entry is
\* still there, unchanged.
IsOverwrite == IsCall("set") /\ IndexOf(cache, last'.key) # 0
ReplacesOnly ==
  /\ Len(cache') = Len(cache)
  /\ IndexOf(cache', last'.key) # 0
  /\ cache'[IndexOf(cache', last'.key)].timestamp = now
  /\ cache'[IndexOf(cache', last'.key)].hits = 0
  /\ \A i \in 1..Len(cache) :
       cache[i].key # last'.key => \E j \in 1..Len(cache') : cache'[j] = cache[i]

\* C26: MemoryCache.set on a fingerprint that is already stored only replaces
\* that fingerprint's entry (fresh timestamp, hit counter 0): it removes no
\* other entry and leaves the number of stored entries unchanged, also when
\* the cache is at capacity.
C26_OverwriteReplacesOnly == [][IsOverwrite => ReplacesOnly]_vars

\* C26 below capacity.
C26_OverwriteBelowCapacity ==
  [][(IsOverwrite /\ Len(cache) < maxEntries) => ReplacesOnly]_vars

\* C26 at capacity: the overwrite first evicts the entry of lowest score,
\* whichever key it has.
C26_OverwriteAtCapacityEvicts ==
  [][(IsOverwrite /\ Len(cache) >= maxEntries)
       => cache' = MapSet(evictLeastRecentlyUsed(cache, now),
                          cache'[IndexOf(cache', last'.key)])]_vars

====
